---- MODULE Spec2Model ----
(***************************************************************************)
(* Verification development for the RAINS server core (m-scr/rains).       *)
(*                                                                         *)
(* The verifier (rainsd/verify.go, src/unnamed/part_000) and the section   *)
(* types (rainslib, src/unnamed/part_005) are translated operator by       *)
(* operator.  Times are seconds since the epoch, scaled down to small      *)
(* integers.  Strings keep Go's bytewise order through NameOrder.          *)
(***************************************************************************)
EXTENDS Integers, Sequences, FiniteSets, TLC

VARIABLES
    now,                \* time.Now().Unix()
    zoneKeyCache,       \* part_000:14, set of cache entries [id, key]
    pendingSignatures,  \* part_000:23, set of parked pendingSignatureCacheValue
    activeTokens,       \* tokens marked active-outbound (part_000:210)
    delivered,          \* log of the calls of assert() (part_000:77)
    notifications,      \* log of the calls of sendNotificationMsg()
    queries,            \* log of the calls of sendQuery() (part_000:209)
    workers,            \* the goroutines executing verify(), with their locals
    queue,              \* sections re-submitted to verify after a bucket drain
    calls,              \* number of sections received from the wire so far
    nextToken,          \* source of rainslib.GenerateToken()
    crashed,            \* TRUE once a goroutine has panicked
    last,               \* what the most recent verify() call observed and did
    vsIn,               \* input of a stand-alone validateSignatures call
    vsOut,              \* its outcome
    rgIn,               \* input of a stand-alone containedSectionInRange call
    rgOut,              \* its outcome
    vqIn,               \* a query section handed to verify(), with its sender
    vqOut,              \* what verify() did with it
    Delegations,        \* part_002:46, the resolver's delegation cache
    rr,                 \* the locals of a recursiveResolve call (part_002:134)
    sent,               \* log of the calls of util.SendQuery (part_002:153)
    hrIn,               \* arguments of a stand-alone handleRedirect call
    hrOut,              \* its outcome
    conn,               \* a pooled connection served by answerDelegQueries
    replies,            \* log of the messages written by answerDelegQueries
    lk,                 \* a ServerLookup call: its locals, the pool, the writes
    cmpIn,              \* the two sections of a stand-alone CompareTo call
    cmpOut,             \* its outcome
    stIn,               \* a message handed to Sort, in two orders of its content
    stOut               \* the sorted contents

serverVars == <<now, zoneKeyCache, pendingSignatures, activeTokens, delivered,
                notifications, queries, workers, queue, calls, nextToken,
                crashed, last>>
sigVars == <<vsIn, vsOut>>
rangeVars == <<rgIn, rgOut>>
queryVars == <<vqIn, vqOut>>
walkVars == <<Delegations, rr, sent>>
redirectVars == <<hrIn, hrOut>>
readerVars == <<conn, replies>>
libresolveVars == <<Delegations, rr, sent, hrIn, hrOut, conn, replies>>
lookupVars == <<lk>>
orderVars == <<cmpIn, cmpOut, stIn, stOut>>
vars == <<now, zoneKeyCache, pendingSignatures, activeTokens, delivered,
          notifications, queries, workers, queue, calls, nextToken,
          crashed, last, vsIn, vsOut, rgIn, rgOut, vqIn, vqOut,
          Delegations, rr, sent, hrIn, hrOut, conn, replies, lk,
          cmpIn, cmpOut, stIn, stOut>>

(***************************************************************************)
(* Bounds of the model.                                                    *)
(***************************************************************************)
MaxSigs == 3        \* longest signature list drawn for validateSignatures
MaxCalls == 2       \* sections received from the wire in one behaviour
MaxNow == 4         \* the clock stops here

(***************************************************************************)
(* Program constants.                                                      *)
(***************************************************************************)
DelegationQueryValidity == 5
MaxCacheAssertionValidity == 720
MaxCacheShardValidity == 720
MaxCacheZoneValidity == 720
\* math.MaxInt64; every time of the model is far below it, so the largest
\* integer TLC represents stands for it.
MaxInt64 == 2147483647

(***************************************************************************)
(* Strings that are compared with < and > in the source.                   *)
(***************************************************************************)
NameOrder == <<"", ".", "a", "ch", "cx", "m", "www", "z">>
Rank(s) == CHOOSE i \in 1..Len(NameOrder) : NameOrder[i] = s
StrLess(a, b) == Rank(a) < Rank(b)


(***************************************************************************)
(* Data: signatures, public keys, sections.                                *)
(***************************************************************************)
RainsKeySpace == "rains"
OTDelegation == "deleg"

\* rainslib.Object: its type and, for a delegation, the delegated public key
Object(type, alg, key) == [Type |-> type, Alg |-> alg, Key |-> key]
ip4 == Object("ip4", "", "")

Sig(alg, ks, since, until, data) ==
    [Algorithm |-> alg, KeySpace |-> ks, ValidSince |-> since,
     ValidUntil |-> until, Data |-> data]

PublicKey(material, since, until) ==
    [Key |-> material, ValidSince |-> since, ValidUntil |-> until]

\* the zero value of rainslib.PublicKey, what keys[alg] yields for an absent alg
ZeroKey == PublicKey("nil", 0, 0)

keyCacheKey(ctx, zone, alg) == [context |-> ctx, zone |-> zone, keyAlgo |-> alg]

AssertionSection(name, zone, ctx, objs, sigs) ==
    [type |-> "Assertion", SubjectName |-> name, SubjectZone |-> zone,
     Context |-> ctx, RangeFrom |-> "", RangeTo |-> "", Objects |-> objs,
     Content |-> <<>>, Signatures |-> sigs, validSince |-> 0, validUntil |-> 0]

ShardSection(zone, ctx, from, to, content, sigs) ==
    [type |-> "Shard", SubjectName |-> "", SubjectZone |-> zone,
     Context |-> ctx, RangeFrom |-> from, RangeTo |-> to, Objects |-> <<>>,
     Content |-> content, Signatures |-> sigs, validSince |-> 0, validUntil |-> 0]

ZoneSection(zone, ctx, content, sigs) ==
    [type |-> "Zone", SubjectName |-> "", SubjectZone |-> zone,
     Context |-> ctx, RangeFrom |-> "", RangeTo |-> "", Objects |-> <<>>,
     Content |-> content, Signatures |-> sigs, validSince |-> 0, validUntil |-> 0]

(***************************************************************************)
(* rainslib.VerifySignature: the cryptographic primitive.  A signature's   *)
(* Data names the key material whose private half produced it over the     *)
(* section's stub; "bad" is produced by no key, "nil" is the absent key.   *)
(***************************************************************************)
VerifySignature(alg, key, data) == key # "nil" /\ data = key

(***************************************************************************)
(* Section methods (part_005).                                             *)
(***************************************************************************)
\* A Go slice: the backing array and the visible length.
Slice(arr, len) == [arr |-> arr, len |-> len]
Visible(sl) == SubSeq(sl.arr, 1, sl.len)

\* DeleteSig(i) evaluates Signatures[i+1:], which panics when i+1 > len.
DeleteSigPanics(sl, i) == i + 1 > sl.len

\* a.Signatures = append(a.Signatures[:i], a.Signatures[i+1:]...) shifts the
\* tail of the backing array one place to the left, in place (i is 0-based).
DeleteSig(sl, i) ==
    [arr |-> [j \in 1..Len(sl.arr) |->
                 IF j >= i + 1 /\ j <= sl.len - 1 THEN sl.arr[j + 1] ELSE sl.arr[j]],
     len |-> sl.len - 1]

\* the validity is taken over without the bound of maxValidity
UpdateValidity_Unbounded(sec, validSince, validUntil, maxValidity, t) ==
    [sec EXCEPT !.validSince = validSince, !.validUntil = validUntil]

UpdateValidity(sec, validSince, validUntil, maxValidity, t) ==
    LET vs0 == IF sec.validSince = 0 THEN MaxInt64 ELSE sec.validSince
        vs1 == IF validSince < vs0
               THEN (IF validSince > t + maxValidity THEN t + maxValidity ELSE validSince)
               ELSE vs0
        vu1 == IF validUntil > sec.validUntil
               THEN (IF validUntil > t + maxValidity THEN t + maxValidity ELSE validUntil)
               ELSE sec.validUntil
    IN  [sec EXCEPT !.validSince = vs1, !.validUntil = vu1]

(***************************************************************************)
(* updateSectionValidity and validateSignatures (part_000).                *)
(***************************************************************************)
maxValidityOf(sec) ==
    CASE sec.type = "Assertion" -> MaxCacheAssertionValidity
      [] sec.type = "Shard" -> MaxCacheShardValidity
      [] sec.type = "Zone" -> MaxCacheZoneValidity
      [] OTHER -> 0

updateSectionValidity(sec, pkeyValidSince, pkeyValidUntil, sigValidSince, sigValidUntil, t) ==
    IF pkeyValidSince < sigValidSince
    THEN IF pkeyValidUntil < sigValidUntil
         THEN UpdateValidity(sec, sigValidSince, pkeyValidUntil, maxValidityOf(sec), t)
         ELSE UpdateValidity(sec, sigValidSince, sigValidUntil, maxValidityOf(sec), t)
    ELSE IF pkeyValidUntil < sigValidUntil
         THEN UpdateValidity(sec, pkeyValidSince, pkeyValidUntil, maxValidityOf(sec), t)
         ELSE UpdateValidity(sec, pkeyValidSince, sigValidUntil, maxValidityOf(sec), t)

\* keys[alg] on a Go map: the zero value when alg is absent.
KeyFor(keys, alg) == IF alg \in DOMAIN keys THEN keys[alg] ELSE ZeroKey

\* no signature counts as expired
sigExpired_Never(sig, t) == FALSE

\* The signature is expired: int64(sig.ValidUntil) < time.Now().Unix()
sigExpired(sig, t) == sig.ValidUntil < t

\* The loop "for i, sig := range section.Sigs()".  The range expression is
\* evaluated once: the loop runs over the n places of the backing array that
\* were visible at its start and reads place i when it gets there, whatever
\* DeleteSig has shifted into it.  st carries the section, its signature
\* slice, and (as history) the signatures handed to VerifySignature.
RECURSIVE validateLoop(_, _, _, _, _)
validateLoop(i, n, st, keys, t) ==
    IF i >= n \/ st.panic \/ st.failed THEN st
    ELSE LET sig == st.sl.arr[i + 1]
             pkey == KeyFor(keys, sig.Algorithm)
         IN  IF sigExpired(sig, t)
             THEN IF DeleteSigPanics(st.sl, i)
                  THEN [st EXCEPT !.panic = TRUE]
                  ELSE validateLoop(i + 1, n, [st EXCEPT !.sl = DeleteSig(st.sl, i)], keys, t)
             ELSE IF ~VerifySignature(sig.Algorithm, pkey.Key, sig.Data)
                  THEN [st EXCEPT !.failed = TRUE,
                                  !.checked = Append(@, [sig |-> sig, key |-> pkey])]
                  ELSE validateLoop(i + 1, n,
                         [st EXCEPT !.sec = updateSectionValidity(st.sec, pkey.ValidSince,
                                               pkey.ValidUntil, sig.ValidSince, sig.ValidUntil, t),
                                    !.checked = Append(@, [sig |-> sig, key |-> pkey]),
                                    !.verified = Append(@, [sig |-> sig, key |-> pkey])],
                         keys, t)

\* validateSignatures(section, keys).  Result: ret (the returned bool), panic
\* (the call did not return), sec (the section as the call leaves it),
\* checked/verified (the signatures handed to / accepted by VerifySignature).
validateSignatures(section, keys, t) ==
    IF Len(section.Signatures) = 0
    THEN [ret |-> FALSE, panic |-> FALSE, sec |-> section, checked |-> <<>>, verified |-> <<>>]
    ELSE LET result(st, sec) ==
                 [ret |-> IF st.panic \/ st.failed THEN FALSE
                          ELSE IF sec.validSince = MaxInt64 /\ sec.validUntil = 0 THEN FALSE
                          ELSE Len(sec.Signatures) > 0,
                  panic |-> st.panic, sec |-> sec,
                  checked |-> st.checked, verified |-> st.verified]
             after(st) == result(st, [st.sec EXCEPT !.Signatures = Visible(st.sl)])
         IN  after(validateLoop(0, Len(section.Signatures),
                      [sec |-> section,
                       sl |-> Slice(section.Signatures, Len(section.Signatures)),
                       panic |-> FALSE, failed |-> FALSE,
                       checked |-> <<>>, verified |-> <<>>], keys, t))

(***************************************************************************)
(* Structural consistency (part_000:119-185).  Each operator yields the    *)
(* number of RcvInconsistentMsg notifications it sends; 0 means valid.     *)
(***************************************************************************)
containedSectionValid(section, outer) ==
    ~(section.Context # outer.Context \/ section.SubjectZone # outer.SubjectZone)

\* the range check left out
containedSectionInRange_Unchecked(subjectName, shard) == TRUE

\* both bounds taken as exclusive
containedSectionInRange_Exclusive(subjectName, shard) ==
    ~((shard.RangeFrom # "" /\ ~StrLess(shard.RangeFrom, subjectName))
        \/ (shard.RangeTo # "" /\ ~StrLess(subjectName, shard.RangeTo)))

containedSectionInRange(subjectName, shard) ==
    ~((shard.RangeFrom # "" /\ StrLess(subjectName, shard.RangeFrom))
        \/ (shard.RangeTo # "" /\ StrLess(shard.RangeTo, subjectName)))

\* the loop over the assertions of a shard, leaving at the first violation
RECURSIVE shardContentNotes(_, _, _, _)
shardContentNotes(content, i, shard, outer) ==
    IF i > Len(content) THEN 0
    ELSE IF ~containedSectionValid(content[i], outer) THEN 1
    ELSE IF ~containedSectionInRange(content[i].SubjectName, shard) THEN 1
    ELSE shardContentNotes(content, i + 1, shard, outer)

\* the loop over the content of a zone going on into a shard's assertions
\* after the shard itself was found inconsistent
RECURSIVE zoneContentNotes_NoReturn(_, _, _)
zoneContentNotes_NoReturn(content, i, outer) ==
    IF i > Len(content) THEN 0
    ELSE IF content[i].type = "Assertion"
    THEN IF ~containedSectionValid(content[i], outer) THEN 1
         ELSE zoneContentNotes_NoReturn(content, i + 1, outer)
    ELSE IF content[i].type = "Shard"
    THEN IF ~containedSectionValid(content[i], outer)
         THEN 1 + shardContentNotes(content[i].Content, 1, content[i], outer)
         ELSE IF shardContentNotes(content[i].Content, 1, content[i], outer) > 0 THEN 1
         ELSE zoneContentNotes_NoReturn(content, i + 1, outer)
    ELSE 1

\* the loop over the content of a zone
RECURSIVE zoneContentNotes(_, _, _)
zoneContentNotes(content, i, outer) ==
    IF i > Len(content) THEN 0
    ELSE LET section == content[i] IN
         IF section.type = "Assertion"
         THEN IF ~containedSectionValid(section, outer) THEN 1
              ELSE zoneContentNotes(content, i + 1, outer)
         ELSE IF section.type = "Shard"
         THEN IF ~containedSectionValid(section, outer) THEN 1
              ELSE IF shardContentNotes(section.Content, 1, section, outer) > 0 THEN 1
              ELSE zoneContentNotes(content, i + 1, outer)
         ELSE 1

\* number of notifications sent; the function returns true iff it is 0
containedAssertionsAndShardsNotes(sec) ==
    CASE sec.type = "Assertion" -> 0
      [] sec.type = "Shard" -> shardContentNotes(sec.Content, 1, sec, sec)
      [] sec.type = "Zone" -> zoneContentNotes(sec.Content, 1, sec)
      [] OTHER -> 1

containedAssertionsAndShardsValid(sec) == containedAssertionsAndShardsNotes(sec) = 0

\* rainsd's check of the shards of a zone against each other.  The design
\* gives it no ground to reject a section.
containedShardsAreConsistent(zone) == TRUE

(***************************************************************************)
(* Key inventory (part_000:217-287).                                       *)
(***************************************************************************)
analyseAssertionContent(a) ==
    [containsDelegation |-> \E i \in 1..Len(a.Objects) : a.Objects[i].Type = OTDelegation,
     allElementsDelegations |-> \A i \in 1..Len(a.Objects) : a.Objects[i].Type = OTDelegation]

\* the keys one signature adds
keysOfSig(section, isAssertion, sig) ==
    IF sig.KeySpace # RainsKeySpace THEN {}
    ELSE LET add(own, allElementsDelegations) ==
                 IF isAssertion /\ allElementsDelegations
                 THEN own
                 ELSE own \cup {keyCacheKey(section.Context, section.SubjectZone,
                                            sig.Algorithm)}
             keysFor(an) ==
                 add(IF isAssertion /\ an.containsDelegation
                     THEN {keyCacheKey(section.Context, section.SubjectName, sig.Algorithm)}
                     ELSE {},
                     an.allElementsDelegations)
         IN  keysFor(analyseAssertionContent(section))

extractNeededKeys(section, isAssertion) ==
    UNION {keysOfSig(section, isAssertion, section.Signatures[i]) :
             i \in 1..Len(section.Signatures)}

neededKeys(section) ==
    CASE section.type = "Assertion" -> extractNeededKeys(section, TRUE)
      [] section.type = "Shard" ->
           extractNeededKeys(section, FALSE)
             \cup UNION {extractNeededKeys(section.Content[i], TRUE) :
                           i \in 1..Len(section.Content)}
      [] section.type = "Zone" ->
           extractNeededKeys(section, FALSE)
             \cup UNION {(IF section.Content[i].type = "Assertion"
                          THEN extractNeededKeys(section.Content[i], TRUE)
                          ELSE IF section.Content[i].type = "Shard"
                          THEN extractNeededKeys(section.Content[i], FALSE)
                          ELSE {}) : i \in 1..Len(section.Content)}
      [] OTHER -> {}

(***************************************************************************)
(* The zone key cache.  Get returns no entry whose validUntil has passed.  *)
(***************************************************************************)
cacheHas(cache, keyID, t) ==
    \E e \in cache : e.id = keyID /\ ~(e.key.ValidUntil < t)

cacheGet(cache, keyID, t) ==
    (CHOOSE e \in cache : e.id = keyID /\ ~(e.key.ValidUntil < t)).key

cacheAdd(cache, keyID, key) ==
    {e \in cache : e.id # keyID} \cup {[id |-> keyID, key |-> key]}

RemoveExpiredKeys(cache, t) == {e \in cache : ~(e.key.ValidUntil < t)}

\* publicKeysPresent(neededKeys): ok, the missing identifiers, and the key
\* maps the loop can produce.  keys[keyID.keyAlgo] = key is written while
\* ranging over a Go map, so for an algorithm that several identifiers
\* share, any of their keys can be the one that stays.
publicKeysPresent(needed, cache, t) ==
    LET result(present, algs) ==
            [ok |-> present = needed,
             missingKeys |-> needed \ present,
             keyMaps |-> {m \in [algs -> {cacheGet(cache, k, t) : k \in present}] :
                            \A a \in algs : \E k \in present :
                                k.keyAlgo = a /\ m[a] = cacheGet(cache, k, t)}]
        lookup(present) == result(present, {k.keyAlgo : k \in present})
    IN  lookup({k \in needed : cacheHas(cache, k, t)})

RECURSIVE maxValidUntil(_, _, _)
maxValidUntil(sigs, i, validity) ==
    IF i > Len(sigs) THEN validity
    ELSE maxValidUntil(sigs, i + 1,
            IF sigs[i].ValidUntil > validity THEN sigs[i].ValidUntil ELSE validity)

\* the upper bound left out
getQueryValidity_Uncapped(sigs, t) == maxValidUntil(sigs, 1, 0)

getQueryValidity(sigs, t) ==
    LET validity == maxValidUntil(sigs, 1, 0)
        upperBound == t + DelegationQueryValidity
    IN  IF validity > upperBound THEN upperBound ELSE validity

(***************************************************************************)
(* validSignature and the walks over contained sections (part_000:324-375) *)
(***************************************************************************)
\* the loop over the assertions of a shard; checked collects, as history, the
\* signatures that the calls on the contained sections hand to VerifySignature
RECURSIVE validAssertions(_, _, _, _)
validAssertions(content, i, keys, t) ==
    IF i > Len(content)
    THEN [ret |-> TRUE, panic |-> FALSE, content |-> content, checked |-> <<>>]
    ELSE LET rest(r, x) == [x EXCEPT !.checked = r.checked \o @]
             next(r, c) ==
                 IF ~r.ret
                 THEN [ret |-> FALSE, panic |-> r.panic, content |-> c,
                       checked |-> r.checked]
                 ELSE rest(r, validAssertions(c, i + 1, keys, t))
             step(r) == next(r, [content EXCEPT ![i] = r.sec])
         IN  step(validateSignatures(content[i], keys, t))

validShardSignatures(section, keys, t) ==
    LET merge(r, c) ==
            [r EXCEPT !.ret = c.ret, !.panic = c.panic, !.sec.Content = c.content,
                      !.checked = @ \o c.checked]
        inner(r) ==
            IF ~r.ret THEN r
            ELSE merge(r, validAssertions(r.sec.Content, 1, keys, t))
    IN  inner(validateSignatures(section, keys, t))

\* the loop over the content of a zone
RECURSIVE validZoneContent(_, _, _, _)
validZoneContent(content, i, keys, t) ==
    IF i > Len(content)
    THEN [ret |-> TRUE, panic |-> FALSE, content |-> content, checked |-> <<>>]
    ELSE LET rest(r, x) == [x EXCEPT !.checked = r.checked \o @]
             next(r, c) ==
                 IF ~r.ret
                 THEN [ret |-> FALSE, panic |-> r.panic, content |-> c,
                       checked |-> r.checked]
                 ELSE rest(r, validZoneContent(c, i + 1, keys, t))
             step(r) == next(r, [content EXCEPT ![i] = r.sec])
         IN  step(IF content[i].type = "Assertion"
                  THEN validateSignatures(content[i], keys, t)
                  ELSE validShardSignatures(content[i], keys, t))

validZoneSignatures(section, keys, t) ==
    LET merge(r, c) ==
            [r EXCEPT !.ret = c.ret, !.panic = c.panic, !.sec.Content = c.content,
                      !.checked = @ \o c.checked]
        inner(r) ==
            IF ~r.ret THEN r
            ELSE merge(r, validZoneContent(r.sec.Content, 1, keys, t))
    IN  inner(validateSignatures(section, keys, t))

validSignature(section, keys, t) ==
    CASE section.type = "Assertion" -> validateSignatures(section, keys, t)
      [] section.type = "Shard" -> validShardSignatures(section, keys, t)
      [] section.type = "Zone" -> validZoneSignatures(section, keys, t)
      [] OTHER -> [ret |-> FALSE, panic |-> FALSE, sec |-> section,
                   checked |-> <<>>, verified |-> <<>>]

(***************************************************************************)
(* The sections a peer sends in this model.                                *)
(***************************************************************************)
sE == Sig("ed25519", "rains", 0, 1, "K.")       \* by the root key, expired
sG == Sig("ed25519", "rains", 1, 4, "K.")       \* by the root key
sB == Sig("ed25519", "rains", 1, 4, "bad")      \* does not verify
sL == Sig("ed25519", "rains", 3, 900, "K.")     \* by the root key, long-lived
sX == Sig("ed25519", "ext", 1, 4, "Kext")       \* in another keyspace
sN == Sig("ed25519", "rains", 1, 2, "K.")       \* by the root key, ends early
sCh == Sig("ed25519", "rains", 1, 4, "Kch")     \* by the key of zone ch
sChE == Sig("ed25519", "rains", 0, 1, "Kch")    \* by the key of zone ch, expired
s448 == Sig("ed448", "rains", 1, 4, "K.448")    \* by a root key that is not cached
sF == Sig("ed25519", "rains", 800, 900, "K.")   \* by the root key, far in the future
sChL == Sig("ed25519", "rains", 1, 900, "Kch")  \* by the key of zone ch, long-lived
sZ == Sig("ed25519", "rains", 0, 4, "K.")       \* by the root key, valid since time 0

RootSigLists ==
    {<<sG>>, <<sB>>, <<sE>>, <<sE, sG>>, <<sG, sE>>, <<sE, sE>>, <<sG, sB>>,
     <<sE, sB, sG>>, <<sE, sE, sG>>}

aIn == AssertionSection("ch", ".", ".", <<ip4>>, <<sG>>)
aOut == AssertionSection("z", ".", ".", <<ip4>>, <<sG>>)
aCtx == AssertionSection("ch", ".", "cx", <<ip4>>, <<sG>>)
aZone == AssertionSection("ch", "ch", ".", <<ip4>>, <<sG>>)
aBad == AssertionSection("ch", ".", ".", <<ip4>>, <<sB>>)
a448 == AssertionSection("ch", ".", ".", <<ip4>>, <<s448>>)

\* the root zone delegates to its own ed448 key
delegRoot448 ==
    AssertionSection(".", ".", ".", <<Object("deleg", "ed448", "K.448")>>, <<sG>>)
\* the root zone delegates to zone ch
delegCh ==
    AssertionSection("ch", ".", ".", <<Object("deleg", "ed25519", "Kch")>>, <<sG>>)
delegChMixed ==
    AssertionSection("ch", ".", ".", <<Object("deleg", "ed25519", "Kch"), ip4>>, <<sG>>)
\* a delegation named "." in zone ch, signed by the root key
delegInCh ==
    AssertionSection(".", "ch", ".", <<Object("deleg", "ed448", "K.448")>>, <<sG>>)

shOk == ShardSection(".", ".", "a", "m", <<aIn>>, <<sG>>)
shOut == ShardSection(".", ".", "a", "m", <<aIn, aOut>>, <<sG>>)
shCtx == ShardSection(".", "cx", "a", "m", <<aCtx>>, <<sG>>)
sh448 == ShardSection(".", ".", "a", "m", <<a448>>, <<sG>>)
shBad == ShardSection(".", ".", "a", "m", <<aBad>>, <<sG>>)
\* the assertion carries a forged signature behind an expired one
shSkip ==
    ShardSection(".", ".", "a", "m",
                 <<AssertionSection("ch", ".", ".", <<ip4>>, <<sE, sB, sG>>)>>, <<sG>>)

Assertions ==
    {AssertionSection("www", ".", ".", <<ip4>>, sigs) : sigs \in RootSigLists}
      \cup {AssertionSection("www", ".", ".", <<ip4>>, <<sG, s448>>),
            AssertionSection("www", "ch", ".", <<ip4>>, <<sCh>>),
            AssertionSection("www", "ch", ".", <<ip4>>, <<sChE>>),
            AssertionSection("www", "ch", ".", <<ip4>>, <<sCh, sChL>>),
            delegRoot448, delegCh, delegChMixed, delegInCh}

Shards ==
    {shOk, shOut, sh448, shBad, shSkip,
     ShardSection(".", ".", "a", "m", <<aCtx>>, <<sG>>),
     ShardSection(".", ".", "a", "m", <<aZone>>, <<sG>>),
     ShardSection(".", ".", "", "", <<aOut>>, <<sG>>),
     ShardSection(".", ".", "a", "m", <<>>, <<sE, sG>>)}

Zones ==
    {ZoneSection(".", ".", content, <<sG>>) :
        content \in {<<>>, <<aIn>>, <<shOk>>, <<aIn, shOk>>, <<aZone>>, <<shOut>>,
                     <<shCtx>>, <<sh448>>, <<shBad>>}}

Sections == Assertions \cup Shards \cup Zones

(***************************************************************************)
(* The server: state after initVerify, and the steps of verify().          *)
(***************************************************************************)
Workers == {"w1", "w2"}

\* the peers a section can come from (msgSender.Sender)
Senders == {"p1", "p2"}

NoSection == AssertionSection("", "", "", <<>>, <<>>)

idleWorker ==
    [pc |-> "idle", sec |-> NoSection, sender |-> "", token |-> 0,
     validUntil |-> 0, addedAt |-> 0, qtoken |-> 0]

\* loadRootZonePublicKey: the trust anchor
rootKeyEntry ==
    [id |-> keyCacheKey(".", ".", "ed25519"), key |-> PublicKey("K.", 0, 1000)]

ServerInit ==
    /\ now = 2
    /\ zoneKeyCache = {rootKeyEntry}
    /\ pendingSignatures = {}
    /\ activeTokens = {}
    /\ delivered = <<>>
    /\ notifications = <<>>
    /\ queries = <<>>
    /\ workers = [w \in Workers |-> idleWorker]
    /\ queue = <<>>
    /\ calls = 0
    /\ nextToken = 100
    /\ crashed = FALSE
    /\ last = [orig |-> NoSection, sender |-> "", token |-> 0, at |-> 0,
               cache |-> {}, needed |-> {}, outcome |-> "none"]

SigIdle ==
    /\ vsIn = [kind |-> "none", sigs |-> <<>>, t |-> 0]
    /\ vsOut = [done |-> FALSE, ret |-> FALSE, panic |-> FALSE,
                sec |-> NoSection, checked |-> <<>>, verified |-> <<>>]

RangeIdle ==
    /\ rgIn = [subjectName |-> "", RangeFrom |-> "", RangeTo |-> ""]
    /\ rgOut = [done |-> FALSE, ret |-> FALSE]

\* no query section is under verification
QueryIdle ==
    /\ vqIn = [Name |-> "", Context |-> "", Expires |-> 0, sender |-> "", t |-> 0]
    /\ vqOut = [done |-> FALSE, valid |-> FALSE, engine |-> <<>>, notifications |-> <<>>]

\* the resolver is not running
WalkIdle ==
    /\ Delegations = <<>>
    /\ rr = [pc |-> "idle"]
    /\ sent = <<>>

RedirectIdle ==
    /\ hrIn = [name |-> <<>>]
    /\ hrOut = [done |-> FALSE]

ReaderIdle ==
    /\ conn = [open |-> FALSE]
    /\ replies = <<>>

LookupIdle == lk = [pc |-> "idle"]

OrderIdle ==
    /\ cmpIn = <<>> /\ cmpOut = [done |-> FALSE]
    /\ stIn = <<>> /\ stOut = [done |-> FALSE]

Init == ServerInit /\ SigIdle /\ RangeIdle /\ QueryIdle /\ WalkIdle /\ RedirectIdle
        /\ ReaderIdle /\ LookupIdle /\ OrderIdle

\* pendingSignatures: the entries parked under (context, zone)
bucket(pending, ctx, zone) ==
    {e \in pending : e.sec.Context = ctx /\ e.sec.SubjectZone = zone}

\* pendingSignatures.Add: the new content, and whether the entry is the
\* first of its bucket
pendingAdd(pending, ctx, zone, value) ==
    [pending |-> pending \cup {value}, first |-> bucket(pending, ctx, zone) = {}]

RemoveExpiredSections(pending, t) == {e \in pending : ~(e.validUntil < t)}

RECURSIVE SetToSeq(_)
SetToSeq(S) ==
    IF S = {} THEN <<>>
    ELSE LET x == CHOOSE y \in S : TRUE IN <<x>> \o SetToSeq(S \ {x})

\* assert(section, isAuthoritative) of the engine: the section enters the
\* assertion store; a delegation installs the delegated zone key, after
\* which the bucket of that zone is drained and its sections are handed to
\* verify again.  The delegation answers the delegation queries sent for
\* that zone so far.
isDelegation(sec) ==
    sec.type = "Assertion" /\ analyseAssertionContent(sec).containsDelegation

\* the zone key cache after the delegated keys of an assertion are added
RECURSIVE installKeys(_, _, _)
installKeys(cache, sec, i) ==
    IF i > Len(sec.Objects) THEN cache
    ELSE installKeys(
           IF sec.Objects[i].Type = OTDelegation
           THEN cacheAdd(cache,
                   keyCacheKey(sec.Context, sec.SubjectName, sec.Objects[i].Alg),
                   PublicKey(sec.Objects[i].Key, sec.validSince, sec.validUntil))
           ELSE cache,
           sec, i + 1)

assertSection(msg, r, q) ==
    /\ delivered' = Append(delivered,
          [orig |-> msg.sec, sec |-> r.sec, token |-> msg.token, at |-> now,
           cache |-> zoneKeyCache, verified |-> r.verified])
    /\ IF isDelegation(r.sec)
       THEN LET drained == bucket(pendingSignatures, r.sec.Context, r.sec.SubjectName) IN
            /\ zoneKeyCache' = installKeys(zoneKeyCache, r.sec, 1)
            /\ pendingSignatures' = pendingSignatures \ drained
            /\ queue' = q \o SetToSeq({[sec |-> e.sec, sender |-> e.sender,
                                        token |-> e.token] : e \in drained})
            /\ queries' = [i \in 1..Len(queries) |->
                  IF queries[i].context = r.sec.Context
                       /\ queries[i].zone = r.sec.SubjectName
                  THEN [queries[i] EXCEPT !.answered = TRUE]
                  ELSE queries[i]]
       ELSE /\ queue' = q
            /\ UNCHANGED <<zoneKeyCache, pendingSignatures, queries>>

\* verify(msgSender) up to the point where verifySignatures has looked up
\* the keys: a call that finds every key runs to its end in this step.
VerifyBegin(w, msg, q) ==
    LET sec == msg.sec
        notes == containedAssertionsAndShardsNotes(sec)
        pk == publicKeysPresent(neededKeys(sec), zoneKeyCache, now)
        seen(outcome) == [orig |-> sec, sender |-> msg.sender, token |-> msg.token,
                          at |-> now, cache |-> zoneKeyCache,
                          needed |-> IF outcome = "inconsistent" THEN {}
                                     ELSE neededKeys(sec),
                          outcome |-> outcome]
        finish(r) ==
           IF r.panic
           THEN /\ crashed' = TRUE
                /\ last' = seen("panic")
                /\ queue' = q
                /\ UNCHANGED <<zoneKeyCache, pendingSignatures, queries, delivered,
                               notifications, workers>>
           ELSE IF r.ret
           THEN /\ assertSection(msg, r, q)
                /\ last' = seen("delivered")
                /\ UNCHANGED <<notifications, workers, crashed>>
           ELSE /\ last' = seen("dropped")
                /\ queue' = q
                /\ UNCHANGED <<zoneKeyCache, pendingSignatures, queries, delivered,
                               notifications, workers, crashed>>
    IN
    IF ~containedAssertionsAndShardsValid(sec)
    THEN /\ notifications' = notifications \o
               [i \in 1..notes |-> [token |-> msg.token, sender |-> msg.sender,
                                    type |-> "RcvInconsistentMsg", orig |-> sec]]
         /\ last' = seen("inconsistent")
         /\ queue' = q
         /\ UNCHANGED <<zoneKeyCache, pendingSignatures, queries, delivered, workers, crashed>>
    ELSE IF sec.type = "Zone" /\ ~containedShardsAreConsistent(sec)
    THEN /\ last' = seen("dropped")
         /\ queue' = q
         /\ UNCHANGED <<zoneKeyCache, pendingSignatures, queries, delivered, notifications,
                        workers, crashed>>
    ELSE IF pk.ok
    THEN \E keys \in pk.keyMaps : finish(validSignature(sec, keys, now))
    ELSE /\ workers' = [workers EXCEPT ![w] =
               [idleWorker EXCEPT !.pc = "add", !.sec = sec, !.sender = msg.sender,
                                  !.token = msg.token]]
         /\ last' = seen("missing")
         /\ queue' = q
         /\ UNCHANGED <<zoneKeyCache, pendingSignatures, queries, delivered, notifications,
                        crashed>>

\* a worker takes a section that arrived from a peer
Receive(w, s, sender) ==
    /\ ~crashed
    /\ workers[w].pc = "idle"
    /\ calls < MaxCalls
    /\ calls' = calls + 1
    /\ VerifyBegin(w, [sec |-> s, sender |-> sender, token |-> calls + 1], queue)
    /\ UNCHANGED <<now, activeTokens, nextToken, sigVars, rangeVars, queryVars, libresolveVars, lookupVars, orderVars>>

\* a worker takes a section that was drained from the pending store
Resubmit(w) ==
    /\ ~crashed
    /\ workers[w].pc = "idle"
    /\ queue # <<>>
    /\ VerifyBegin(w, Head(queue), Tail(queue))
    /\ UNCHANGED <<now, activeTokens, nextToken, calls, sigVars, rangeVars, queryVars, libresolveVars, lookupVars, orderVars>>

\* part_000:203-204
AddPending(w) ==
    /\ ~crashed
    /\ workers[w].pc = "add"
    /\ LET me == workers[w]
           cacheValue == [sec |-> me.sec, sender |-> me.sender, token |-> me.token,
                          validUntil |-> getQueryValidity(me.sec.Signatures, now),
                          addedAt |-> now]
           res == pendingAdd(pendingSignatures, me.sec.Context, me.sec.SubjectZone,
                             cacheValue)
       IN  /\ pendingSignatures' = res.pending
           /\ workers' = [workers EXCEPT ![w] =
                  IF res.first
                  THEN [me EXCEPT !.pc = "send", !.validUntil = cacheValue.validUntil,
                                  !.addedAt = now]
                  ELSE idleWorker]
    /\ UNCHANGED <<now, zoneKeyCache, activeTokens, delivered, notifications, queries,
                   queue, calls, nextToken, crashed, last, sigVars, rangeVars, queryVars, libresolveVars, lookupVars, orderVars>>

\* part_000:207-209
SendQuery(w) ==
    /\ ~crashed
    /\ workers[w].pc = "send"
    /\ LET me == workers[w]
           token == nextToken + 1
       IN  /\ nextToken' = token
           /\ queries' = Append(queries,
                  [context |-> me.sec.Context, zone |-> me.sec.SubjectZone,
                   validUntil |-> me.validUntil, computedAt |-> me.addedAt,
                   token |-> token, at |-> now,
                   active |-> token \in activeTokens, answered |-> FALSE,
                   orig |-> me.sec])
           /\ workers' = [workers EXCEPT ![w] = [me EXCEPT !.pc = "mark", !.qtoken = token]]
    /\ UNCHANGED <<now, zoneKeyCache, pendingSignatures, activeTokens, delivered,
                   notifications, queue, calls, crashed, last, sigVars, rangeVars, queryVars, libresolveVars, lookupVars, orderVars>>

\* part_000:210
MarkActive(w) ==
    /\ ~crashed
    /\ workers[w].pc = "mark"
    /\ activeTokens' = activeTokens \cup {workers[w].qtoken}
    /\ workers' = [workers EXCEPT ![w] = idleWorker]
    /\ UNCHANGED <<now, zoneKeyCache, pendingSignatures, delivered, notifications,
                   queries, queue, calls, nextToken, crashed, last, sigVars, rangeVars, queryVars, libresolveVars, lookupVars, orderVars>>

\* one round of reapVerify (part_000:434-442)
Reap ==
    /\ ~crashed
    /\ zoneKeyCache' = RemoveExpiredKeys(zoneKeyCache, now)
    /\ pendingSignatures' = RemoveExpiredSections(pendingSignatures, now)
    /\ UNCHANGED <<now, activeTokens, delivered, notifications, queries, workers,
                   queue, calls, nextToken, crashed, last, sigVars, rangeVars, queryVars, libresolveVars, lookupVars, orderVars>>

Tick ==
    /\ now < MaxNow
    /\ now' = now + 1
    /\ UNCHANGED <<zoneKeyCache, pendingSignatures, activeTokens, delivered,
                   notifications, queries, workers, queue, calls, nextToken,
                   crashed, last, sigVars, rangeVars, queryVars, libresolveVars, lookupVars, orderVars>>

Next ==
    \/ \E w \in Workers, s \in Sections, sender \in Senders : Receive(w, s, sender)
    \/ \E w \in Workers : Resubmit(w)
    \/ \E w \in Workers : AddPending(w)
    \/ \E w \in Workers : SendQuery(w)
    \/ \E w \in Workers : MarkActive(w)
    \/ Reap
    \/ Tick

Spec == Init /\ [][Next]_vars

(***************************************************************************)
(* validateSignatures on its own: one call on a section of each kind, for  *)
(* every signature list up to MaxSigs long.                                *)
(***************************************************************************)
SigKinds == {sE, sG, sB, sL, sX, sN, sF, sZ}

RECURSIVE SeqsUpTo(_, _)
SeqsUpTo(S, n) ==
    IF n = 0 THEN {<<>>}
    ELSE LET shorter == SeqsUpTo(S, n - 1)
         IN  shorter \cup {Append(q, x) : q \in {p \in shorter : Len(p) = n - 1}, x \in S}

sectionOfKind(kind, sigs) ==
    CASE kind = "Assertion" -> AssertionSection("www", ".", ".", <<ip4>>, sigs)
      [] kind = "Shard" -> ShardSection(".", ".", "", "", <<>>, sigs)
      [] OTHER -> ZoneSection(".", ".", <<>>, sigs)

SigInit ==
    /\ ServerInit /\ LookupIdle /\ OrderIdle
    /\ vsIn \in [kind : {"Assertion", "Shard", "Zone"},
                 sigs : SeqsUpTo(SigKinds, MaxSigs),
                 t : {2, 3},
                 key : {PublicKey("K.", 0, 1000), PublicKey("K.", 2, 3)}]
    /\ vsOut = [done |-> FALSE, ret |-> FALSE, panic |-> FALSE,
                sec |-> NoSection, checked |-> <<>>, verified |-> <<>>]
    /\ RangeIdle /\ QueryIdle /\ WalkIdle /\ RedirectIdle /\ ReaderIdle

Validate ==
    /\ ~vsOut.done
    /\ LET r == validateSignatures(sectionOfKind(vsIn.kind, vsIn.sigs),
                                   [a \in {"ed25519"} |-> vsIn.key], vsIn.t)
       IN  vsOut' = [done |-> TRUE, ret |-> r.ret, panic |-> r.panic, sec |-> r.sec,
                     checked |-> r.checked, verified |-> r.verified]
    /\ UNCHANGED <<vsIn, serverVars, rangeVars, queryVars, libresolveVars, lookupVars, orderVars>>

SigNext == Validate

SpecSig == SigInit /\ [][SigNext]_vars

(***************************************************************************)
(* containedSectionInRange on its own: one call for every subject name and *)
(* every pair of range bounds drawn from NameOrder.                        *)
(***************************************************************************)
RangeInit ==
    /\ ServerInit /\ LookupIdle /\ OrderIdle
    /\ SigIdle
    /\ rgIn \in [subjectName : {NameOrder[i] : i \in 1..Len(NameOrder)},
                 RangeFrom : {NameOrder[i] : i \in 1..Len(NameOrder)},
                 RangeTo : {NameOrder[i] : i \in 1..Len(NameOrder)}]
    /\ rgOut = [done |-> FALSE, ret |-> FALSE]
    /\ QueryIdle /\ WalkIdle /\ RedirectIdle /\ ReaderIdle

InRange ==
    /\ ~rgOut.done
    /\ rgOut' = [done |-> TRUE,
                 ret |-> containedSectionInRange(rgIn.subjectName,
                            ShardSection(".", ".", rgIn.RangeFrom, rgIn.RangeTo, <<>>, <<>>))]
    /\ UNCHANGED <<rgIn, serverVars, sigVars, queryVars, libresolveVars, lookupVars, orderVars>>

RangeNext == InRange

SpecRange == RangeInit /\ [][RangeNext]_vars

(***************************************************************************)
(* verify() on a query section (part_000:79-82): one call for every        *)
(* expiration time around the clock.                                       *)
(***************************************************************************)
QuerySection(name, context, expires) ==
    [type |-> "Query", Name |-> name, Context |-> context, Expires |-> expires]

\* the mutation of validQuery that also rejects a query expiring right now
validQuery_RejectsNow(section, t) ==
    IF section.Expires <= t THEN FALSE ELSE TRUE

\* part_000:110-117
validQuery(section, t) ==
    IF section.Expires < t THEN FALSE ELSE TRUE

QueryInit ==
    /\ ServerInit /\ LookupIdle /\ OrderIdle
    /\ SigIdle /\ RangeIdle /\ WalkIdle /\ RedirectIdle /\ ReaderIdle
    /\ vqIn \in [Name : {"www", "ch"}, Context : {"."},
                 Expires : 0..(MaxNow + 1), sender : Senders, t : 0..MaxNow]
    /\ vqOut = [done |-> FALSE, valid |-> FALSE, engine |-> <<>>, notifications |-> <<>>]

\* verify(msgSender) with a *rainslib.QuerySection: the query is handed to
\* query() when validQuery accepts it; nothing else is called.
VerifyQuery ==
    /\ ~vqOut.done
    /\ LET section == QuerySection(vqIn.Name, vqIn.Context, vqIn.Expires)
           valid == validQuery(section, vqIn.t)
       IN  vqOut' = [done |-> TRUE, valid |-> valid,
                     engine |-> IF valid
                                THEN Append(vqOut.engine,
                                            [section |-> section, sender |-> vqIn.sender])
                                ELSE vqOut.engine,
                     notifications |-> vqOut.notifications]
    /\ UNCHANGED <<vqIn, serverVars, sigVars, rangeVars, libresolveVars, lookupVars, orderVars>>

QueryNext == VerifyQuery

SpecQuery == QueryInit /\ [][QueryNext]_vars

(***************************************************************************)
(* The recursive resolver (libresolve, src/unnamed/part_002).              *)
(*                                                                         *)
(* A name is the sequence of its characters, so that equality, prefix and  *)
(* suffix are those of Go's strings.  The text of an address is a sequence *)
(* of pieces, each a run of characters without a colon, or the colon       *)
(* itself: concatenation and splitting at a colon act on the pieces as     *)
(* they act on the characters.                                             *)
(***************************************************************************)
rainsPrefix == <<"_", "r", "a", "i", "n", "s">>
rainsPort == 55553

OTRedirection == "redir"
OTServiceInfo == "srv"
OTIP6Addr == "ip6"
OTIP4Addr == "ip4"
OTName == "name"

HasPrefix(s, prefix) ==
    Len(prefix) <= Len(s) /\ SubSeq(s, 1, Len(prefix)) = prefix
HasSuffix(s, suffix) ==
    Len(suffix) <= Len(s) /\ SubSeq(s, Len(s) - Len(suffix) + 1, Len(s)) = suffix
TrimSuffix(s, suffix) ==
    IF HasSuffix(s, suffix) THEN SubSeq(s, 1, Len(s) - Len(suffix)) ELSE s

Colons(s) == {i \in 1..Len(s) : s[i] = ":"}
\* strings.Split(s, ":")[0]
SplitFirst(s) ==
    IF Colons(s) = {} THEN s
    ELSE SubSeq(s, 1, (CHOOSE i \in Colons(s) : \A j \in Colons(s) : i <= j) - 1)

\* fmt.Sprintf("%s:%d", host, port)
Sprintf(host, port) == host \o <<":", ToString(port)>>

\* a net.Addr, and the nil address
TCPAddr(ip, port) == [IP |-> ip, Port |-> port]
NilAddr == [IP |-> <<>>, Port |-> <<>>]

\* (*net.TCPAddr).String(): net.JoinHostPort puts an address that contains a
\* colon between brackets
AddrString(addr) ==
    IF Colons(addr.IP) # {}
    THEN <<"[">> \o addr.IP \o <<"]", ":">> \o addr.Port
    ELSE addr.IP \o <<":">> \o addr.Port

hrError == [err |-> TRUE, overflow |-> FALSE, addr |-> NilAddr]
\* the call never returns: the goroutine's stack grows until the runtime
\* ends the process
hrOverflow == [err |-> TRUE, overflow |-> TRUE, addr |-> NilAddr]

\* net.ResolveTCPAddr on "host:port" where host is an IP literal: the text is
\* split at its last colon, and a host that still contains a colon must
\* stand between brackets
ResolveTCPAddr(s) ==
    IF Colons(s) = {} THEN hrError
    ELSE LET lastColon == CHOOSE i \in Colons(s) : \A j \in Colons(s) : j <= i
             host == SubSeq(s, 1, lastColon - 1)
             port == SubSeq(s, lastColon + 1, Len(s))
         IN  IF host # <<>> /\ host[1] = "[" /\ host[Len(host)] = "]"
                  /\ Len(host) > 2
             THEN [err |-> FALSE, overflow |-> FALSE,
                   addr |-> TCPAddr(SubSeq(host, 2, Len(host) - 1), port)]
             ELSE IF Colons(host) # {} \/ host = <<>> \/ port = <<>>
                     \/ host[1] = "["
             THEN hrError
             ELSE [err |-> FALSE, overflow |-> FALSE, addr |-> TCPAddr(host, port)]

allAllowedTypes == {OTIP6Addr, OTIP4Addr, OTServiceInfo, OTName}
allowedAddrTypes == {OTIP6Addr, OTIP4Addr}

SeqRange(s) == {s[i] : i \in 1..Len(s)}

\* part_002:273-304.  stack holds the arguments of the enclosing calls: a
\* call whose arguments are those of an enclosing call repeats it and never
\* returns.
RECURSIVE handleRedirect(_, _, _, _, _, _)
handleRedirect(name, srvMap, ipMap, nameMap, allowedTypes, stack) ==
    LET deeper == stack \cup {<<name, allowedTypes>>}
        viaName(inner) == IF inner.err
                          THEN IF inner.overflow THEN hrOverflow ELSE hrError
                          ELSE inner
        nameBranch ==
            IF OTName \in allowedTypes /\ name \in DOMAIN nameMap
            THEN viaName(handleRedirect(nameMap[name].Name, srvMap, ipMap, nameMap,
                                        SeqRange(nameMap[name].Types), deeper))
            ELSE hrError
        viaSrv(inner) ==
            IF inner.err THEN nameBranch
            ELSE ResolveTCPAddr(Sprintf(SplitFirst(AddrString(inner.addr)),
                                        srvMap[name].Port))
    IN
    IF <<name, allowedTypes>> \in stack THEN hrOverflow
    ELSE IF (OTIP6Addr \in allowedTypes \/ OTIP4Addr \in allowedTypes)
             /\ name \in DOMAIN ipMap
    THEN ResolveTCPAddr(Sprintf(ipMap[name], rainsPort))
    ELSE IF OTServiceInfo \in allowedTypes /\ HasPrefix(name, rainsPrefix)
             /\ name \in DOMAIN srvMap
    THEN viaSrv(handleRedirect(srvMap[name].Name, srvMap, ipMap, nameMap,
                               allowedAddrTypes, deeper))
    ELSE nameBranch

(***************************************************************************)
(* Names, addresses and records that peers put into their answers.         *)
(***************************************************************************)
nsSrv == rainsPrefix \o <<".", "n", ".", "c", ".">>      \* "_rains.n.c."
nsPlain == <<"n", ".", "c", ".">>                         \* "n.c."
nsHost == <<"h", ".", "c", ".">>                          \* "h.c."
ipA == <<"192.0.2.1">>
ipB == <<"192.0.2.2">>
ipV6 == <<"2001", ":", "db8", ":", ":", "1">>

\* object.ServiceInfo and object.Name
ServiceInfo(name, port) == [Name |-> name, Port |-> port, Priority |-> 0]
NameObject(name, types) == [Name |-> name, Types |-> types]

\* the maps with keys from D and values from V
MapsOver(D, V) == UNION {[K -> V] : K \in SUBSET D}

(***************************************************************************)
(* handleRedirect on its own: one call for every redirect target and every *)
(* combination of service, address and alias records.                      *)
(***************************************************************************)
RedirectInit ==
    /\ ServerInit /\ LookupIdle /\ OrderIdle
    /\ SigIdle /\ RangeIdle /\ QueryIdle /\ WalkIdle /\ ReaderIdle
    /\ hrIn \in [name : {nsSrv, nsPlain},
                 srvMap : MapsOver({nsSrv, nsPlain}, {ServiceInfo(nsHost, 5022)}),
                 ipMap : MapsOver({nsHost, nsSrv}, {ipA, ipV6}),
                 nameMap : MapsOver({nsPlain, nsHost},
                              [Name : {nsPlain, nsHost, nsSrv},
                               Types : {<<OTName>>, <<OTIP4Addr>>,
                                        <<OTName, OTServiceInfo>>}])]
    /\ hrOut = [done |-> FALSE]

Redirect ==
    /\ ~hrOut.done
    /\ LET out(r) == [done |-> TRUE, err |-> r.err, overflow |-> r.overflow,
                      addr |-> r.addr]
       IN  hrOut' = out(handleRedirect(hrIn.name, hrIn.srvMap, hrIn.ipMap, hrIn.nameMap,
                                       allAllowedTypes, {}))
    /\ UNCHANGED <<hrIn, serverVars, sigVars, rangeVars, queryVars, walkVars, readerVars, lookupVars, orderVars>>

RedirectNext == Redirect

SpecRedirect == RedirectInit /\ [][RedirectNext]_vars

(***************************************************************************)
(* Sections and objects as the resolver sees them.                         *)
(***************************************************************************)
Obj(type, value) == [Type |-> type, Value |-> value]
Assertion(name, zone, content) ==
    [type |-> "Assertion", SubjectName |-> name, SubjectZone |-> zone,
     RangeFrom |-> <<>>, RangeTo |-> <<>>, Content |-> content, Signatures |-> <<>>]
\* the assertion as a peer sends it with a signature made with key
signedWith(a, key) == [a EXCEPT !.Signatures = <<key>>]
Shard(zone, from, to, content) ==
    [type |-> "Shard", SubjectName |-> <<>>, SubjectZone |-> zone,
     RangeFrom |-> from, RangeTo |-> to, Content |-> content, Signatures |-> <<>>]
Zone(zone, content) ==
    [type |-> "Zone", SubjectName |-> <<>>, SubjectZone |-> zone,
     RangeFrom |-> <<>>, RangeTo |-> <<>>, Content |-> content, Signatures |-> <<>>]

\* message.Message, and the nil message pointer
Message(content) == [nil |-> FALSE, Content |-> content]
NilMessage == [nil |-> TRUE, Content |-> <<>>]

\* query.Name
QueryName(name, types) ==
    [type |-> "Query", Name |-> name, Context |-> ".", Types |-> types]

\* section.Assertion.FQDN: the subject name joined to the zone
FQDN(a) ==
    IF a.SubjectName = <<"@">> THEN a.SubjectZone
    ELSE IF a.SubjectZone = <<".">> THEN a.SubjectName \o <<".">>
    ELSE a.SubjectName \o <<".">> \o a.SubjectZone

\* Go's order of strings, on the characters that occur in names
CharOrder == <<".", "@", "_", "a", "c", "h", "i", "n", "r", "s", "w", "x", "y">>
CharRank(c) == CHOOSE i \in 1..Len(CharOrder) : CharOrder[i] = c
RECURSIVE NameLess(_, _)
NameLess(a, b) ==
    IF b = <<>> THEN FALSE
    ELSE IF a = <<>> THEN TRUE
    ELSE IF Head(a) = Head(b) THEN NameLess(Tail(a), Tail(b))
    ELSE CharRank(Head(a)) < CharRank(Head(b))

\* section.Shard.InRange: strictly between the bounds, an empty bound being
\* no bound
ShardInRange(s, name) ==
    /\ s.RangeFrom = <<>> \/ NameLess(s.RangeFrom, name)
    /\ s.RangeTo = <<>> \/ NameLess(name, s.RangeTo)

\* m[k] = v on a Go map, and safeHashMap.Add
Put(m, k, v) == [x \in DOMAIN m \cup {k} |-> IF x = k THEN v ELSE m[x]]

\* the locals that handleAnswer hands to its helpers, with the delegation
\* cache as it is before the answer is looked at
answerState(cache) ==
    [redirMap |-> <<>>, srvMap |-> <<>>, ipMap |-> <<>>, nameMap |-> <<>>,
     isFinal |-> FALSE, isRedir |-> FALSE, cache |-> cache]

\* part_002:212-232, the objects of a from the i-th on
RECURSIVE handleObjects(_, _, _, _, _)
handleObjects(a, i, types, name, h) ==
    IF i > Len(a.Content) THEN h
    ELSE LET o == a.Content[i]
             final(g) == [g EXCEPT !.isFinal =
                             g.isFinal \/ (o.Type \in types /\ FQDN(a) = name)]
         IN  handleObjects(a, i + 1, types, name, final(
               CASE o.Type = OTRedirection ->
                      [h EXCEPT !.redirMap = Put(h.redirMap, FQDN(a), o.Value),
                                !.isRedir = h.isRedir \/ OTRedirection \notin types
                                               \/ FQDN(a) # name]
                 [] o.Type = OTDelegation ->
                      [h EXCEPT !.cache = Put(h.cache, FQDN(a), a)]
                 [] o.Type = OTServiceInfo ->
                      [h EXCEPT !.srvMap = Put(h.srvMap, FQDN(a), o.Value)]
                 [] o.Type \in {OTIP6Addr, OTIP4Addr} ->
                      [h EXCEPT !.ipMap = Put(h.ipMap, FQDN(a), o.Value)]
                 [] o.Type = OTName ->
                      [h EXCEPT !.nameMap = Put(h.nameMap, FQDN(a), o.Value)]
                 [] OTHER -> h))

\* part_002:209-234
handleAssertion(a, types, name, h) == handleObjects(a, 1, types, name, h)

\* part_002:239-243
handleShard(s, name, h) ==
    IF HasSuffix(name, s.SubjectZone)
          /\ ShardInRange(s, TrimSuffix(name, s.SubjectZone))
    THEN [h EXCEPT !.isFinal = TRUE]
    ELSE h

\* part_002:248-250, the assertions of the zone from the i-th on
RECURSIVE zoneContent(_, _, _, _, _)
zoneContent(content, i, types, name, h) ==
    IF i > Len(content) THEN h
    ELSE zoneContent(content, i + 1, types, name,
                     handleAssertion(content[i], types, name, h))

\* part_002:246-255
handleZone(z, types, name, h) ==
    LET covers(g) == IF HasSuffix(name, z.SubjectZone)
                     THEN [g EXCEPT !.isFinal = TRUE]
                     ELSE g
    IN  covers(zoneContent(z.Content, 1, types, name, h))

\* part_002:194-205, the sections of the answer from the i-th on
RECURSIVE answerSections(_, _, _, _, _)
answerSections(content, i, types, name, h) ==
    IF i > Len(content) THEN h
    ELSE answerSections(content, i + 1, types, name,
           CASE content[i].type = "Assertion" ->
                  handleAssertion(content[i], types, name, h)
             [] content[i].type = "Shard" -> handleShard(content[i], name, h)
             [] content[i].type = "Zone" -> handleZone(content[i], types, name, h)
             [] OTHER -> h)

\* part_002:185-207
handleAnswer(msg, q, cache) ==
    answerSections(msg.Content, 1, SeqRange(q.Types), q.Name, answerState(cache))

(***************************************************************************)
(* recursiveResolve (part_002:134-179), one step per answer.               *)
(***************************************************************************)
MaxLookups == 2     \* calls of recursiveResolve in one behaviour
MaxSent == 3        \* calls of util.SendQuery that the log keeps

\* the root name servers handed to New
RootNameServers ==
    <<TCPAddr(<<"198.51.100.1">>, <<"55553">>), TCPAddr(<<"198.51.100.2">>, <<"55553">>)>>

qW == <<"w", ".", "c", ".">>        \* "w.c."
qC == <<"c", ".">>                  \* "c."
rootZone == <<".">>

qXc == <<"x", "c", ".">>           \* "xc.", a name outside the zone "c."

Lookups == {QueryName(qW, <<OTIP4Addr>>), QueryName(qC, <<OTIP4Addr, OTDelegation>>),
            QueryName(qC, <<OTIP4Addr>>), QueryName(qXc, <<OTIP4Addr>>)}

\* what a peer may answer
\* the delegation of c., unsigned, and signed with a key that no delegation
\* chain leads to
delegC == Assertion(<<"c">>, rootZone, <<Obj(OTDelegation, "Kc")>>)
delegForged == signedWith(Assertion(<<"n">>, qC, <<Obj(OTDelegation, "Kn")>>), "Kevil")
srvNs == Assertion(rainsPrefix \o <<".", "n">>, qC,
                   <<Obj(OTServiceInfo, ServiceInfo(nsHost, 5022))>>)
srvPlain == Assertion(<<"n">>, qC, <<Obj(OTServiceInfo, ServiceInfo(nsHost, 5022))>>)
hostIP == Assertion(<<"h">>, qC, <<Obj(OTIP4Addr, ipA)>>)

mFinal == Message(<<Assertion(<<"w">>, qC, <<Obj(OTIP4Addr, ipB)>>)>>)
mDeleg == Message(<<delegC>>)
mForged == Message(<<delegForged>>)
mRedir == Message(<<Assertion(<<"c">>, rootZone,
                              <<Obj(OTDelegation, "Kc"), Obj(OTRedirection, nsSrv)>>),
                    srvNs, hostIP>>)
\* the same redirect, to a second server
mRedirB == Message(<<Assertion(<<"c">>, rootZone, <<Obj(OTRedirection, nsSrv)>>),
                     srvNs, Assertion(<<"h">>, qC, <<Obj(OTIP4Addr, ipB)>>)>>)
mRedirPlain == Message(<<Assertion(<<"c">>, rootZone, <<Obj(OTRedirection, nsPlain)>>),
                         srvPlain, hostIP>>)
mAlias == Message(<<Assertion(<<"c">>, rootZone, <<Obj(OTRedirection, nsPlain)>>),
                    Assertion(<<"n">>, qC,
                              <<Obj(OTName, NameObject(nsPlain, <<OTName>>))>>)>>)
mZone == Message(<<Zone(qC, <<Assertion(<<"x">>, qC, <<Obj(OTDelegation, "Kx")>>)>>)>>)
mShard == Message(<<Shard(qC, <<>>, <<"x">>,
                          <<Assertion(<<"h">>, qC, <<Obj(OTDelegation, "Kh")>>)>>)>>)
mOther == Message(<<Assertion(<<"y">>, qC, <<Obj(OTIP4Addr, ipB)>>)>>)
mEmpty == Message(<<>>)

Answers == {mFinal, mDeleg, mForged, mRedir, mRedirB, mRedirPlain, mAlias, mZone, mShard, mOther, mEmpty}

idleResolve ==
    [pc |-> "idle", q |-> QueryName(<<>>, <<>>), root |-> 0, addr |-> NilAddr,
     prev |-> "none", msg |-> NilMessage, err |-> FALSE, shortcut |-> FALSE,
     cache0 |-> <<>>, lastAnswer |-> NilMessage, anyFinal |-> FALSE,
     tried |-> <<>>, lookups |-> 0]

ResolveInit ==
    /\ ServerInit /\ LookupIdle /\ OrderIdle
    /\ SigIdle /\ RangeIdle /\ QueryIdle /\ RedirectIdle /\ ReaderIdle
    /\ Delegations = <<>>
    /\ rr = idleResolve
    /\ sent = <<>>

\* the mutation of the shortcut test that looks into the cache for every
\* query
shortcutApplies_AnyType(q, cache) == q.Name \in DOMAIN cache

\* part_002:137-145: the query asks for a delegation and the cache has one
\* for its name
shortcutApplies(q, cache) ==
    OTDelegation \in SeqRange(q.Types) /\ q.Name \in DOMAIN cache

\* the mutation of the loop over the roots that gives up after the first
nextRoot_OnlyFirst(r) ==
    IF r.root < 1
    THEN [r EXCEPT !.pc = "walk", !.root = 1, !.addr = RootNameServers[1],
                   !.prev = "none", !.tried = Append(r.tried, 1)]
    ELSE [r EXCEPT !.pc = "done", !.err = TRUE, !.msg = NilMessage, !.addr = NilAddr]

\* part_002:147-148 and 177-178: the walk of the next root begins, or the
\* roots are exhausted and the call returns an error
nextRoot(r) ==
    IF r.root < Len(RootNameServers)
    THEN [r EXCEPT !.pc = "walk", !.root = r.root + 1,
                   !.addr = RootNameServers[r.root + 1],
                   !.prev = "none", !.tried = Append(r.tried, r.root + 1)]
    ELSE [r EXCEPT !.pc = "done", !.err = TRUE, !.msg = NilMessage, !.addr = NilAddr]

\* part_002:134-148
recursiveResolve(q) ==
    /\ rr.pc \in {"idle", "done"}
    /\ rr.lookups < MaxLookups
    /\ LET start == [idleResolve EXCEPT !.q = q, !.cache0 = Delegations,
                                        !.lookups = rr.lookups + 1]
       IN  rr' = IF shortcutApplies(q, Delegations)
                 THEN [start EXCEPT !.pc = "done", !.shortcut = TRUE,
                                    !.msg = Message(<<Delegations[q.Name]>>)]
                 ELSE nextRoot(start)
    /\ sent' = <<>>
    /\ UNCHANGED <<Delegations, hrIn, hrOut, conn, replies, serverVars, sigVars,
                   rangeVars, queryVars, lookupVars, orderVars>>

\* the call of util.SendQuery at part_002:152, appended to the log
logSend ==
    IF Len(sent) < MaxSent
    THEN Append(sent, [addr |-> rr.addr, root |-> rr.root, prev |-> rr.prev])
    ELSE sent

\* part_002:164-170: the range over redirMap visits the targets in any
\* order and stops at the first that resolves
redirectOutcomes(h) ==
    LET pick(results) ==
            {r \in results : ~r.err} \cup {r \in results : r.overflow}
              \cup (IF \A r \in results : r.err /\ ~r.overflow THEN {hrError} ELSE {})
    IN  pick({handleRedirect(h.redirMap[k], h.srvMap, h.ipMap, h.nameMap,
                             allAllowedTypes, {}) : k \in DOMAIN h.redirMap})

\* part_002:149-175 when util.SendQuery delivers the answer of the peer
QueryAnswered(answer) ==
    /\ rr.pc = "walk"
    /\ rr.addr # NilAddr
    /\ sent' = logSend
    /\ LET classify(h) ==
             /\ Delegations' = h.cache
             /\ IF h.isFinal
                THEN rr' = [rr EXCEPT !.pc = "done", !.msg = answer,
                                      !.lastAnswer = answer, !.anyFinal = TRUE]
                ELSE IF h.isRedir
                THEN \E o \in redirectOutcomes(h) :
                        rr' = IF o.overflow
                              THEN [rr EXCEPT !.pc = "crashed", !.lastAnswer = answer]
                              ELSE IF o.err
                              THEN [rr EXCEPT !.addr = NilAddr, !.prev = "unusable",
                                              !.lastAnswer = answer]
                              ELSE [rr EXCEPT !.addr = o.addr, !.prev = "redirect",
                                              !.lastAnswer = answer]
                ELSE rr' = nextRoot([rr EXCEPT !.lastAnswer = answer])
       IN  IF Len(answer.Content) = 0
           THEN /\ rr' = nextRoot(rr)
                /\ UNCHANGED Delegations
           ELSE classify(handleAnswer(answer, rr.q, Delegations))
    /\ UNCHANGED <<hrIn, hrOut, conn, replies, serverVars, sigVars, rangeVars, queryVars, lookupVars, orderVars>>

\* part_002:152-156 when util.SendQuery returns an error: the peer did not
\* answer within the timeout, or no connection can be made to the address
QueryFailed ==
    /\ rr.pc = "walk"
    /\ sent' = logSend
    /\ rr' = nextRoot(rr)
    /\ UNCHANGED <<Delegations, hrIn, hrOut, conn, replies, serverVars, sigVars,
                   rangeVars, queryVars, lookupVars, orderVars>>

ResolveNext ==
    \/ \E q \in Lookups : recursiveResolve(q)
    \/ \E answer \in Answers : QueryAnswered(answer)
    \/ QueryFailed

SpecResolve == ResolveInit /\ [][ResolveNext]_vars

\* every call of util.SendQuery returns, with an answer or after the timeout
SpecResolveLive == SpecResolve /\ WF_vars(ResolveNext)

(***************************************************************************)
(* answerDelegQueries (part_002:308-331): the goroutine that serves the    *)
(* delegation queries arriving on a pooled connection.                     *)
(***************************************************************************)
MaxInbound == 2     \* messages read from the connection in one behaviour

qX == <<"x", ".", "c", ".">>        \* "x.c."
delegX == Assertion(<<"x">>, qC, <<Obj(OTDelegation, "Kx")>>)

\* the delegation cache as earlier lookups may have left it
Caches == {<<>>, Put(<<>>, qC, delegC), Put(Put(<<>>, qC, delegC), qX, delegX)}

\* the contents of the messages a peer may send on the connection
InboundContents ==
    {<<QueryName(qC, <<OTDelegation>>)>>,
     <<QueryName(qC, <<OTIP4Addr>>)>>,
     <<QueryName(qX, <<OTIP4Addr, OTDelegation, OTDelegation>>),
       QueryName(qC, <<OTDelegation>>)>>,
     <<delegC, QueryName(qW, <<OTDelegation>>)>>,
     <<>>}

ReaderInit ==
    /\ ServerInit /\ LookupIdle /\ OrderIdle
    /\ SigIdle /\ RangeIdle /\ QueryIdle /\ RedirectIdle
    /\ Delegations \in Caches
    /\ rr = [pc |-> "idle"]
    /\ sent = <<>>
    /\ conn = [open |-> TRUE, pooled |-> TRUE, running |-> TRUE, inbound |-> <<>>]
    /\ replies = <<>>

\* part_002:338-347, the types of q from the i-th on
RECURSIVE delegationFor(_, _, _)
delegationFor(q, i, cache) ==
    IF i > Len(q.Types) THEN <<>>
    ELSE IF q.Types[i] = OTDelegation
    THEN IF q.Name \in DOMAIN cache THEN <<cache[q.Name]>> ELSE <<>>
    ELSE delegationFor(q, i + 1, cache)

\* part_002:336-349, the sections of the message from the i-th on
RECURSIVE delegationsFrom(_, _, _)
delegationsFrom(content, i, cache) ==
    IF i > Len(content) THEN <<>>
    ELSE (IF content[i].type = "Query" THEN delegationFor(content[i], 1, cache)
          ELSE <<>>)
         \o delegationsFrom(content, i + 1, cache)

\* the mutation of getDelegations that answers with every cached assertion
\* for a queried name, whatever types the query asks for
getDelegations_AnyType(msg, cache) ==
    LET isCached(s) == s.type = "Query" /\ s.Name \in DOMAIN cache
        hits == SelectSeq(msg.Content, isCached)
    IN  [i \in 1..Len(hits) |-> cache[hits[i].Name]]

\* part_002:334-351
getDelegations(msg, cache) == delegationsFrom(msg.Content, 1, cache)

\* CloseAndRemoveConnection, and the break out of the loop
closed(c) == [c EXCEPT !.open = FALSE, !.pooled = FALSE, !.running = FALSE]

\* part_002:312-330: a message is read, answered and the answer written
ServeMessage(token, content) ==
    /\ conn.running
    /\ Len(conn.inbound) < MaxInbound
    /\ conn' = [conn EXCEPT !.inbound = Append(conn.inbound,
                                               [Token |-> token, Content |-> content])]
    /\ replies' = Append(replies,
                         [Token |-> token,
                          Content |-> getDelegations(Message(content), Delegations)])
    /\ UNCHANGED <<Delegations, rr, sent, hrIn, hrOut, serverVars, sigVars, rangeVars,
                   queryVars, lookupVars, orderVars>>

\* part_002:312-329: a message is read, but writing the answer fails
WriteFails(token, content) ==
    /\ conn.running
    /\ Len(conn.inbound) < MaxInbound
    /\ conn' = closed([conn EXCEPT !.inbound = Append(conn.inbound,
                                                      [Token |-> token,
                                                       Content |-> content])])
    /\ UNCHANGED <<replies, Delegations, rr, sent, hrIn, hrOut, serverVars, sigVars,
                   rangeVars, queryVars, lookupVars, orderVars>>

\* part_002:312-321: reading fails, at the end of the stream or otherwise
ReadFails ==
    /\ conn.running
    /\ conn' = closed(conn)
    /\ UNCHANGED <<replies, Delegations, rr, sent, hrIn, hrOut, serverVars, sigVars,
                   rangeVars, queryVars, lookupVars, orderVars>>

ReaderNext ==
    \/ \E token \in {7, 8}, content \in InboundContents : ServeMessage(token, content)
    \/ \E token \in {7, 8}, content \in InboundContents : WriteFails(token, content)
    \/ ReadFails

SpecReader == ReaderInit /\ [][ReaderNext]_vars

(***************************************************************************)
(* ServerLookup (part_002:81-103): one call, for every resolution mode,    *)
(* every outcome of the resolution and of the writes, and a pool that      *)
(* holds no, one or two connections to the requester.                      *)
(***************************************************************************)
LookupInit ==
    /\ ServerInit /\ OrderIdle
    /\ SigIdle /\ RangeIdle /\ QueryIdle /\ WalkIdle /\ RedirectIdle /\ ReaderIdle
    /\ lk \in [pc : {"idle"}, Mode : {"Recursive", "Forward", "Unsupported"},
               token : {"t1", "t2"}, pool : {<<>>, <<1>>, <<1, 2>>},
               msg : {NilMessage}, written : {<<>>}, failed : {{}}, closed : {{}},
               opened : {{}}, readers : {{}}]

\* part_002:120-132: answers[i] is what util.SendQuery returns for the i-th
\* forwarder, NilMessage standing for an error
RECURSIVE forwardQuery(_, _)
forwardQuery(answers, i) ==
    IF i > Len(answers) THEN NilMessage
    ELSE IF ~answers[i].nil THEN answers[i]
    ELSE forwardQuery(answers, i + 1)

\* part_002:105-118 on the state l of the call: created and written tell
\* whether connection.CreateConnection and writer.Marshal succeed.  The pool
\* keeps the connections of the requester's address in the order they were
\* added.
createConnAndWrite(l, out, created, written) ==
    LET fresh == Len(l.pool) + Cardinality(l.closed) + 1 IN
    IF ~created THEN l
    ELSE IF written
    THEN [l EXCEPT !.pool = Append(l.pool, fresh), !.opened = l.opened \cup {fresh},
                   !.readers = l.readers \cup {fresh},
                   !.written = Append(l.written, [conn |-> fresh, msg |-> out])]
    ELSE [l EXCEPT !.pool = <<>>, !.opened = l.opened \cup {fresh},
                   !.readers = l.readers \cup {fresh},
                   !.failed = l.failed \cup {fresh},
                   !.closed = l.closed \cup SeqRange(l.pool) \cup {fresh}]

\* part_002:81-103.  resolved is the outcome of recursiveResolve, answers
\* those of the forwarders; wrote, created and rewrote are the outcomes of
\* the write on the pooled connection, of opening a connection and of the
\* write on it.
ServerLookup(resolved, answers, wrote, created, rewrote) ==
    /\ lk.pc = "idle"
    /\ LET msg == CASE lk.Mode = "Recursive" -> resolved
                    [] lk.Mode = "Forward" -> forwardQuery(answers, 1)
                    [] OTHER -> NilMessage
           out == [Token |-> lk.token, Content |-> msg.Content]
           got == [lk EXCEPT !.pc = "done", !.msg = msg]
       IN  lk' = IF msg.nil
                 THEN [lk EXCEPT !.pc = "panic"]
                 ELSE IF lk.pool # <<>>
                 THEN IF wrote
                      THEN [got EXCEPT !.written =
                               Append(lk.written, [conn |-> lk.pool[1], msg |-> out])]
                      ELSE createConnAndWrite(
                               [got EXCEPT !.failed = lk.failed \cup {lk.pool[1]}],
                               out, created, rewrote)
                 ELSE createConnAndWrite(got, out, created, rewrote)
    /\ UNCHANGED <<serverVars, sigVars, rangeVars, queryVars, libresolveVars, orderVars>>

LookupNext ==
    \E resolved \in {NilMessage, mFinal, mEmpty},
       answers \in {<<>>, <<NilMessage>>, <<NilMessage, mDeleg>>, <<mEmpty, mDeleg>>},
       wrote \in BOOLEAN, created \in BOOLEAN, rewrote \in BOOLEAN :
        ServerLookup(resolved, answers, wrote, created, rewrote)

SpecLookup == LookupInit /\ [][LookupNext]_vars

(***************************************************************************)
(* CompareTo of the sections (part_005).  Strings compare as Go strings,   *)
(* in the order of NameOrder.  Object.CompareTo is taken to be a total     *)
(* order on objects: here the order of the sequence ObjectOrder.  A result *)
(* is ret, the returned int, or panic when the call does not return.       *)
(***************************************************************************)
dlg == Object(OTDelegation, "ed25519", "Kch")
ObjectOrder == <<ip4, dlg>>
ObjectRank(o) == CHOOSE i \in 1..Len(ObjectOrder) : ObjectOrder[i] = o

ObjectCompareTo(o, p) ==
    IF ObjectRank(o) < ObjectRank(p) THEN -1
    ELSE IF ObjectRank(o) > ObjectRank(p) THEN 1
    ELSE 0

\* part_005:131-155
AssertionSection_CompareTo(a, assertion) ==
    LET RECURSIVE loop(_)
        loop(i) ==
            IF i > Len(a.Objects) THEN 0
            ELSE IF ObjectCompareTo(a.Objects[i], assertion.Objects[i]) # 0
                 THEN ObjectCompareTo(a.Objects[i], assertion.Objects[i])
                 ELSE loop(i + 1)
    IN  IF StrLess(a.SubjectName, assertion.SubjectName) THEN -1
        ELSE IF StrLess(assertion.SubjectName, a.SubjectName) THEN 1
        ELSE IF StrLess(a.SubjectZone, assertion.SubjectZone) THEN -1
        ELSE IF StrLess(assertion.SubjectZone, a.SubjectZone) THEN 1
        ELSE IF StrLess(a.Context, assertion.Context) THEN -1
        ELSE IF StrLess(assertion.Context, a.Context) THEN 1
        ELSE IF Len(a.Objects) < Len(assertion.Objects) THEN -1
        ELSE IF Len(a.Objects) > Len(assertion.Objects) THEN 1
        ELSE loop(1)

\* part_005:277-305: the comparison of SubjectZone answers 1 for the smaller
\* and -1 for the greater zone
ShardSection_CompareTo(s, shard) ==
    LET RECURSIVE loop(_)
        loop(i) ==
            IF i > Len(s.Content) THEN 0
            ELSE IF AssertionSection_CompareTo(s.Content[i], shard.Content[i]) # 0
                 THEN AssertionSection_CompareTo(s.Content[i], shard.Content[i])
                 ELSE loop(i + 1)
    IN  IF StrLess(s.SubjectZone, shard.SubjectZone) THEN 1
        ELSE IF StrLess(shard.SubjectZone, s.SubjectZone) THEN -1
        ELSE IF StrLess(s.Context, shard.Context) THEN -1
        ELSE IF StrLess(shard.Context, s.Context) THEN 1
        ELSE IF StrLess(s.RangeFrom, shard.RangeFrom) THEN -1
        ELSE IF StrLess(shard.RangeFrom, s.RangeFrom) THEN 1
        ELSE IF StrLess(s.RangeTo, shard.RangeTo) THEN -1
        ELSE IF StrLess(shard.RangeTo, s.RangeTo) THEN 1
        ELSE IF Len(s.Content) < Len(shard.Content) THEN -1
        ELSE IF Len(s.Content) > Len(shard.Content) THEN 1
        ELSE loop(1)

\* part_005:438-475: in the shard case the type assertion is made on
\* z.Content[i], the element itself, so it always succeeds and the shard is
\* compared with itself
ZoneSection_CompareTo(z, zone) ==
    LET RECURSIVE loop(_)
        loop(i) ==
            IF i > Len(z.Content) THEN 0
            ELSE IF z.Content[i].type = "Assertion"
            THEN IF zone.Content[i].type = "Assertion"
                 THEN IF AssertionSection_CompareTo(z.Content[i], zone.Content[i]) # 0
                      THEN AssertionSection_CompareTo(z.Content[i], zone.Content[i])
                      ELSE loop(i + 1)
                 ELSE -1
            ELSE IF ShardSection_CompareTo(z.Content[i], z.Content[i]) # 0
                 THEN ShardSection_CompareTo(z.Content[i], z.Content[i])
                 ELSE loop(i + 1)
    IN  IF StrLess(z.SubjectZone, zone.SubjectZone) THEN -1
        ELSE IF StrLess(zone.SubjectZone, z.SubjectZone) THEN 1
        ELSE IF StrLess(z.Context, zone.Context) THEN -1
        ELSE IF StrLess(zone.Context, z.Context) THEN 1
        ELSE IF Len(z.Content) < Len(zone.Content) THEN -1
        ELSE IF Len(z.Content) > Len(zone.Content) THEN 1
        ELSE loop(1)

\* SubjectAddr stands for SubjectAddr.String(), the text of the network
AddressAssertionSection(addr, ctx, objs) ==
    [type |-> "AddressAssertion", SubjectAddr |-> addr, Context |-> ctx,
     Objects |-> objs]

\* the value a call yields when it indexes a slice beyond its length
indexOutOfRange == [ret |-> 0, panic |-> TRUE]
returns(v) == [ret |-> v, panic |-> FALSE]

\* part_005:663-679: the loop runs over a.Content and indexes
\* assertion.Content without comparing the lengths
AddressAssertionSection_CompareTo(a, assertion) ==
    LET RECURSIVE loop(_)
        loop(i) ==
            IF i > Len(a.Objects) THEN returns(0)
            ELSE IF i > Len(assertion.Objects) THEN indexOutOfRange
            ELSE IF ObjectCompareTo(a.Objects[i], assertion.Objects[i]) # 0
                 THEN returns(ObjectCompareTo(a.Objects[i], assertion.Objects[i]))
                 ELSE loop(i + 1)
    IN  IF StrLess(a.SubjectAddr, assertion.SubjectAddr) THEN returns(-1)
        ELSE IF StrLess(assertion.SubjectAddr, a.SubjectAddr) THEN returns(1)
        ELSE IF StrLess(a.Context, assertion.Context) THEN returns(-1)
        ELSE IF StrLess(assertion.Context, a.Context) THEN returns(1)
        ELSE loop(1)

\* x.CompareTo(y) for two sections of one type
CompareTo(x, y) ==
    CASE x.type = "Assertion" -> returns(AssertionSection_CompareTo(x, y))
      [] x.type = "Shard" -> returns(ShardSection_CompareTo(x, y))
      [] x.type = "Zone" -> returns(ZoneSection_CompareTo(x, y))
      [] OTHER -> AddressAssertionSection_CompareTo(x, y)

\* the sections that are compared
cmpAssertions ==
    {AssertionSection(n, z, ".", objs, <<>>) :
        n \in {"a", "m"}, z \in {".", "ch"},
        objs \in {<<>>, <<ip4>>, <<dlg>>, <<ip4, dlg>>}}
cmpA1 == AssertionSection("a", ".", ".", <<ip4>>, <<>>)
cmpA2 == AssertionSection("m", ".", ".", <<ip4>>, <<>>)
cmpShards ==
    {ShardSection(z, ".", from, "m", content, <<>>) :
        z \in {".", "ch"}, from \in {"", "a"},
        content \in {<<>>, <<cmpA1>>, <<cmpA2>>}}
cmpS1 == ShardSection(".", ".", "", "m", <<cmpA1>>, <<>>)
cmpS2 == ShardSection(".", ".", "a", "m", <<cmpA2>>, <<>>)
cmpZones ==
    {ZoneSection(z, ".", content, <<>>) :
        z \in {".", "ch"},
        content \in {<<>>, <<cmpA1>>, <<cmpA2>>, <<cmpS1>>, <<cmpS2>>,
                     <<cmpA1, cmpS1>>, <<cmpS1, cmpA1>>}}
cmpAddressAssertions ==
    {AddressAssertionSection(addr, ".", objs) :
        addr \in {"a", "m"}, objs \in {<<>>, <<ip4>>, <<dlg>>, <<ip4, dlg>>}}
cmpKinds == {cmpAssertions, cmpShards, cmpZones, cmpAddressAssertions}

CompareInit ==
    /\ ServerInit /\ SigIdle /\ RangeIdle /\ QueryIdle /\ WalkIdle /\ RedirectIdle
    /\ ReaderIdle /\ LookupIdle
    /\ stIn = <<>> /\ stOut = [done |-> FALSE]
    /\ \E K \in cmpKinds : cmpIn \in [x : K, y : K]
    /\ cmpOut = [done |-> FALSE, ret |-> 0, panic |-> FALSE]

\* one call cmpIn.x.CompareTo(cmpIn.y)
Compare ==
    /\ ~cmpOut.done
    /\ LET result(r) == [done |-> TRUE, ret |-> r.ret, panic |-> r.panic]
       IN  cmpOut' = result(CompareTo(cmpIn.x, cmpIn.y))
    /\ UNCHANGED <<cmpIn, stIn, stOut, serverVars, sigVars, rangeVars, queryVars,
                   libresolveVars, lookupVars>>

CompareNext == Compare

SpecCompare == CompareInit /\ [][CompareNext]_vars

(***************************************************************************)
(* Sort of the sections (part_005) and of a message (message.go:176-241).  *)
(* sort.Slice on a slice of at most 12 elements is an insertion sort: for  *)
(* i from the second element on, the element moves down while less(j, j-1) *)
(* holds.  Object.Sort, which orders the inside of one object, leaves the  *)
(* objects of this model as they are.                                      *)
(***************************************************************************)
MaxContent == 3     \* longest content of a sorted message or section

\* the less functions handed to sort.Slice
less(kind, x, y) ==
    CASE kind = "Object" -> returns(ObjectCompareTo(x, y) < 0)
      [] kind = "Assertion" -> returns(AssertionSection_CompareTo(x, y) < 0)
      [] kind = "Shard" -> returns(ShardSection_CompareTo(x, y) < 0)
      [] kind = "Zone" -> returns(ZoneSection_CompareTo(x, y) < 0)
      [] kind = "ZoneContent" ->
           \* part_005:418-433
           IF x.type = "Assertion"
           THEN IF y.type = "Assertion"
                THEN returns(AssertionSection_CompareTo(x, y) < 0)
                ELSE returns(TRUE)
           ELSE IF y.type = "Shard"
                THEN returns(ShardSection_CompareTo(x, y) < 0)
                ELSE returns(FALSE)
      [] OTHER ->
           LET negative(r) == [ret |-> r.ret < 0, panic |-> r.panic]
           IN  negative(AddressAssertionSection_CompareTo(x, y))

sortSlice(kind, slice) ==
    LET swap(st, j) ==
            [st EXCEPT !.arr = [@ EXCEPT ![j] = st.arr[j - 1], ![j - 1] = st.arr[j]]]
        RECURSIVE inner(_, _)
        move(st, j, l) ==
            IF l.panic THEN [st EXCEPT !.panic = TRUE]
            ELSE IF l.ret THEN inner(swap(st, j), j - 1)
            ELSE st
        inner(st, j) ==
            IF st.panic \/ j <= 1 THEN st
            ELSE move(st, j, less(kind, st.arr[j], st.arr[j - 1]))
        RECURSIVE outer(_, _)
        outer(st, i) ==
            IF st.panic \/ i > Len(st.arr) THEN st
            ELSE outer(inner(st, i), i + 1)
    IN  outer([arr |-> slice, panic |-> FALSE], 2)

\* part_005:123-128
AssertionSection_Sort(a) ==
    [a EXCEPT !.Objects = sortSlice("Object", a.Objects).arr]

\* part_005:269-274
ShardSection_Sort(s) ==
    [s EXCEPT !.Content =
        sortSlice("Assertion",
                  [i \in 1..Len(s.Content) |-> AssertionSection_Sort(s.Content[i])]).arr]

\* part_005:414-435
ZoneSection_Sort(z) ==
    [z EXCEPT !.Content =
        sortSlice("ZoneContent",
                  [i \in 1..Len(z.Content) |->
                      IF z.Content[i].type = "Assertion"
                      THEN AssertionSection_Sort(z.Content[i])
                      ELSE ShardSection_Sort(z.Content[i])]).arr]

\* part_005:655-660
AddressAssertionSection_Sort(a) ==
    [a EXCEPT !.Objects = sortSlice("Object", a.Objects).arr]

sectionSort(sec) ==
    CASE sec.type = "Assertion" -> AssertionSection_Sort(sec)
      [] sec.type = "Shard" -> ShardSection_Sort(sec)
      [] sec.type = "Zone" -> ZoneSection_Sort(sec)
      [] OTHER -> AddressAssertionSection_Sort(sec)

RainsMessage(content) == [type |-> "Message", Content |-> content]

\* message.go:176-241, for the section types of this model: every section
\* is sorted, the sections are put into one slice per type, each slice is
\* sorted, and the content is rebuilt from the slices
RainsMessage_Sort(m) ==
    LET ofType(sorted, t) == LET is(sec) == sec.type = t IN SelectSeq(sorted, is)
        rebuild(sorted, addressAssertions, assertions, shards, zones) ==
            IF addressAssertions.panic
            THEN [sec |-> [m EXCEPT !.Content = sorted], panic |-> TRUE]
            ELSE [sec |-> [m EXCEPT !.Content = addressAssertions.arr \o assertions.arr
                                                  \o shards.arr \o zones.arr],
                  panic |-> FALSE]
        group(sorted) ==
            rebuild(sorted,
                    sortSlice("AddressAssertion", ofType(sorted, "AddressAssertion")),
                    sortSlice("Assertion", ofType(sorted, "Assertion")),
                    sortSlice("Shard", ofType(sorted, "Shard")),
                    sortSlice("Zone", ofType(sorted, "Zone")))
    IN  group([i \in 1..Len(m.Content) |-> sectionSort(m.Content[i])])

\* x.Sort() for a message or a section
SortOf(x) ==
    IF x.type = "Message" THEN RainsMessage_Sort(x)
    ELSE [sec |-> sectionSort(x), panic |-> FALSE]

\* what is sorted
srtZ1 == ZoneSection(".", ".", <<cmpS1>>, <<>>)
srtZ2 == ZoneSection(".", ".", <<cmpS2>>, <<>>)
srtD1 == AddressAssertionSection("a", ".", <<>>)
srtD2 == AddressAssertionSection("a", ".", <<ip4>>)
srtD3 == AddressAssertionSection("m", ".", <<ip4>>)
sortTargets ==
    {RainsMessage(c) :
        c \in SeqsUpTo({cmpA1, cmpA2, cmpS1, cmpS2, srtZ1, srtZ2, srtD1, srtD2, srtD3},
                       MaxContent)}
      \cup {ZoneSection(".", ".", c, <<>>) :
              c \in SeqsUpTo({cmpA1, cmpA2, cmpS1, cmpS2}, MaxContent)}
      \cup {ShardSection(".", ".", "", "", c, <<>>) :
              c \in SeqsUpTo({cmpA1, cmpA2,
                              AssertionSection("a", ".", ".", <<dlg, ip4>>, <<>>)},
                             MaxContent)}
      \cup {AssertionSection("a", ".", ".", c, <<>>) :
              c \in SeqsUpTo({ip4, dlg}, MaxContent)}

SortInit ==
    /\ ServerInit /\ SigIdle /\ RangeIdle /\ QueryIdle /\ WalkIdle /\ RedirectIdle
    /\ ReaderIdle /\ LookupIdle
    /\ cmpIn = <<>> /\ cmpOut = [done |-> FALSE]
    /\ stIn \in sortTargets
    /\ stOut = [done |-> FALSE, sec |-> NoSection, panic |-> FALSE]

\* one call stIn.Sort()
Sort ==
    /\ ~stOut.done
    /\ LET result(r) == [done |-> TRUE, sec |-> r.sec, panic |-> r.panic]
       IN  stOut' = result(SortOf(stIn))
    /\ UNCHANGED <<stIn, cmpIn, cmpOut, serverVars, sigVars, rangeVars, queryVars,
                   libresolveVars, lookupVars>>

SortNext == Sort

SpecSort == SortInit /\ [][SortNext]_vars

(***************************************************************************)
(* Claims.                                                                 *)
(***************************************************************************)
unexpired(sigs, t) == LET keep(sig) == ~(sig.ValidUntil < t) IN SelectSeq(sigs, keep)

\* C9: whenever validateSignatures returns true, the signatures left on the
\* section are exactly the original signatures that were not expired, in
\* their original order, and each of them was handed to VerifySignature and
\* accepted.
C9_RemainingAreVerifiedUnexpired ==
    (vsOut.done /\ vsOut.ret) =>
        /\ vsOut.sec.Signatures = unexpired(vsIn.sigs, vsIn.t)
        /\ \A i \in 1..Len(vsOut.sec.Signatures) :
              \E j \in 1..Len(vsOut.verified) :
                  vsOut.verified[j].sig = vsOut.sec.Signatures[i]

\* C10: when every signature of the section is expired, validateSignatures
\* removes them all and returns false.
C10_AllExpiredReturnsFalse ==
    (vsOut.done /\ Len(vsIn.sigs) > 0
       /\ \A i \in 1..Len(vsIn.sigs) : sigExpired(vsIn.sigs[i], vsIn.t)) =>
        /\ ~vsOut.panic
        /\ ~vsOut.ret
        /\ vsOut.sec.Signatures = <<>>

\* C11: a signature whose validUntil equals the current time is not handed
\* to VerifySignature and, when validateSignatures returns true, is no longer
\* on the section.
C11_EqualNowIsExpired ==
    (vsOut.done /\ ~vsOut.panic) =>
        /\ \A j \in 1..Len(vsOut.checked) : vsOut.checked[j].sig.ValidUntil # vsIn.t
        /\ vsOut.ret =>
              \A i \in 1..Len(vsOut.sec.Signatures) :
                  vsOut.sec.Signatures[i].ValidUntil # vsIn.t

Min(a, b) == IF a < b THEN a ELSE b
Max(a, b) == IF a > b THEN a ELSE b

\* the one signature of the call, the key it is verified under, and the
\* latest time a section of this kind may be cached until
theSig == vsIn.sigs[1]
theKey == vsIn.key
cacheLimit == vsIn.t + maxValidityOf(vsOut.sec)

\* C12 as stated: with one verified signature the section's validity is
\* [max of the validSince, min of the validUntil] of signature and key, with
\* validUntil capped at now + maxCacheValidity of the section's kind.
C12_ValidityIsIntersection ==
    (vsOut.done /\ vsOut.ret /\ Len(vsIn.sigs) = 1) =>
        /\ vsOut.sec.validSince = Max(theSig.ValidSince, theKey.ValidSince)
        /\ vsOut.sec.validUntil =
              Min(Min(theSig.ValidUntil, theKey.ValidUntil), cacheLimit)

\* C12 amended: validSince is capped at now + maxCacheValidity as well; and
\* for every signature list that validates, validUntil does not exceed
\* now + maxCacheValidity.
C12_ValidityIsCappedIntersection ==
    /\ (vsOut.done /\ vsOut.ret /\ Len(vsIn.sigs) = 1) =>
          /\ vsOut.sec.validSince =
                Min(Max(theSig.ValidSince, theKey.ValidSince), cacheLimit)
          /\ vsOut.sec.validUntil =
                Min(Min(theSig.ValidUntil, theKey.ValidUntil), cacheLimit)
    /\ (vsOut.done /\ vsOut.ret) => vsOut.sec.validUntil <= cacheLimit

\* a signature that starts and ends beyond the cache limit was verified
C12_Witness ==
    /\ vsOut.done /\ vsOut.ret /\ Len(vsIn.sigs) = 1
    /\ theSig.ValidSince > cacheLimit
    /\ vsOut.sec.validSince = cacheLimit
    /\ vsOut.sec.validUntil = cacheLimit

(***************************************************************************)
(* Claims about verify().                                                  *)
(***************************************************************************)
differsFrom(inner, outer) ==
    inner.Context # outer.Context \/ inner.SubjectZone # outer.SubjectZone

outsideRange(a, shard) ==
    \/ shard.RangeFrom # "" /\ StrLess(a.SubjectName, shard.RangeFrom)
    \/ shard.RangeTo # "" /\ StrLess(shard.RangeTo, a.SubjectName)

\* the sections C1 speaks of
Inconsistent(s) ==
    \/ /\ s.type = "Shard"
       /\ \E i \in 1..Len(s.Content) :
             differsFrom(s.Content[i], s) \/ outsideRange(s.Content[i], s)
    \/ /\ s.type = "Zone"
       /\ \E i \in 1..Len(s.Content) :
             \/ differsFrom(s.Content[i], s)
             \/ /\ s.Content[i].type = "Shard"
                /\ \E j \in 1..Len(s.Content[i].Content) :
                      \/ differsFrom(s.Content[i].Content[j], s)
                      \/ outsideRange(s.Content[i].Content[j], s.Content[i])

\* C1: a shard or zone with a contained section of another context or zone,
\* or with a shard's assertion outside the shard's range, is never handed
\* to assert, never parked (nor on its way to be parked or re-verified) and
\* never the cause of a delegation query.
C1_InconsistentNeverStored ==
    /\ \A i \in 1..Len(delivered) : ~Inconsistent(delivered[i].orig)
    /\ \A e \in pendingSignatures : ~Inconsistent(e.sec)
    /\ \A i \in 1..Len(queries) : ~Inconsistent(queries[i].orig)
    /\ \A w \in Workers : workers[w].pc # "idle" => ~Inconsistent(workers[w].sec)
    /\ \A i \in 1..Len(queue) : ~Inconsistent(queue[i].sec)

\* verify has rejected an inconsistent zone after it delivered a section
C1_Witness ==
    /\ last.outcome = "inconsistent"
    /\ Inconsistent(last.orig)
    /\ last.orig.type = "Zone"
    /\ Len(notifications) > 0
    /\ Len(delivered) > 0

\* C2: a section handed to assert has validUntil >= now, and one of the
\* signatures left on it was accepted by VerifySignature under a key that
\* the zone key cache held and that was still valid.
C2_DeliveredIsValid ==
    \A i \in 1..Len(delivered) :
        LET d == delivered[i] IN
        /\ d.sec.validUntil >= d.at
        /\ \E j \in 1..Len(d.verified) :
              /\ \E k \in 1..Len(d.sec.Signatures) :
                    d.sec.Signatures[k] = d.verified[j].sig
              /\ \E e \in d.cache : e.key = d.verified[j].key
              /\ d.verified[j].key.ValidUntil >= d.at

\* a section was delivered after an expired signature was taken off it
C2_Witness ==
    \E i \in 1..Len(delivered) :
        /\ Len(delivered[i].sec.Signatures) < Len(delivered[i].orig.Signatures)
        /\ delivered[i].sec.validUntil >= delivered[i].at

\* the key identifiers the signatures of a section and of the sections it
\* contains, at every level, require
RECURSIVE requiredKeys(_)
requiredKeys(s) ==
    extractNeededKeys(s, s.type = "Assertion")
      \cup UNION {requiredKeys(s.Content[i]) : i \in 1..Len(s.Content)}

\* C3: when a key identifier that a consistent section requires is absent
\* from the zone key cache, verify goes on to park the section: it neither
\* delivers it nor sends a notification.
C3_MissingKeyParks ==
    (/\ last.outcome # "none"
     /\ ~Inconsistent(last.orig)
     /\ \E k \in requiredKeys(last.orig) : ~cacheHas(last.cache, k, last.at))
        => last.outcome = "missing"

\* a delegation query is outstanding until a delegation for its zone is
\* installed or its validUntil has passed
Outstanding(q) == ~q.answered /\ ~(q.validUntil < now)

\* C4: no two delegation queries for the same (context, zone) are
\* outstanding at the same time.
C4_OneQueryPerZone ==
    \A i, j \in 1..Len(queries) :
        (i # j /\ queries[i].context = queries[j].context
               /\ queries[i].zone = queries[j].zone)
            => ~(Outstanding(queries[i]) /\ Outstanding(queries[j]))

\* no verify call is under way and no drained section waits for one
Quiescent ==
    /\ \A w \in Workers : workers[w].pc = "idle"
    /\ queue = <<>>

\* C5: a section is not left parked, with nothing under way that would
\* hand it to verify again, while every key it needs is in the zone key
\* cache and its pending validUntil has not passed.
C5_NoLostWakeup ==
    (Quiescent /\ ~crashed) =>
        \A e \in pendingSignatures :
            e.validUntil < now
              \/ \E k \in neededKeys(e.sec) : ~cacheHas(zoneKeyCache, k, now)

\* C6: every parked section lacks one of its keys, and was parked with a
\* validUntil later than the time of parking.
C6_ParkedLacksKey ==
    \A e \in pendingSignatures :
        /\ \E k \in neededKeys(e.sec) : ~cacheHas(zoneKeyCache, k, now)
        /\ e.validUntil > e.addedAt

\* C7: no section is handed to assert twice.
C7_NoSecondDelivery ==
    \A i, j \in 1..Len(delivered) :
        i # j => delivered[i].orig # delivered[j].orig

\* a section and the sections it contains, at every level
RECURSIVE allSections(_)
allSections(s) == {s} \cup UNION {allSections(s.Content[i]) : i \in 1..Len(s.Content)}

\* some signature that is not expired fails under the stored key
hasFailingSig(s, cache, t) ==
    \E x \in allSections(s) : \E i \in 1..Len(x.Signatures) :
        LET sig == x.Signatures[i]
            id == keyCacheKey(x.Context, x.SubjectZone, sig.Algorithm)
        IN  /\ sig.KeySpace = RainsKeySpace
            /\ ~sigExpired(sig, t)
            /\ cacheHas(cache, id, t)
            /\ ~VerifySignature(sig.Algorithm, cacheGet(cache, id, t).Key, sig.Data)

\* C8: a consistent section with a signature that is not expired and fails
\* under the stored key is dropped: not delivered, not parked, no
\* notification.
C8_FailingSigDrops ==
    (/\ last.outcome # "none"
     /\ ~Inconsistent(last.orig)
     /\ hasFailingSig(last.orig, last.cache, last.at))
        => last.outcome = "dropped"

\* the rains-keyspace signatures of a section
rainsSigs(x) ==
    {x.Signatures[i] : i \in {j \in 1..Len(x.Signatures) :
                                  x.Signatures[j].KeySpace = RainsKeySpace}}

\* the key identifiers C13 lists for an assertion: the parent-zone key for
\* every rains signature, and the key of the subject name as well when a
\* delegation stands next to objects of other types
listedAssertionKeys(a) ==
    {keyCacheKey(a.Context, a.SubjectZone, sig.Algorithm) : sig \in rainsSigs(a)}
      \cup (IF /\ \E i \in 1..Len(a.Objects) : a.Objects[i].Type = OTDelegation
                /\ \E k \in 1..Len(a.Objects) : a.Objects[k].Type # OTDelegation
             THEN {keyCacheKey(a.Context, a.SubjectName, sig.Algorithm) :
                     sig \in rainsSigs(a)}
             ELSE {})

\* C13: the keys verify looks up for an assertion are the parent-zone key
\* for each rains signature, plus the subject name's key when the content
\* mixes a delegation with other objects; for a pure delegation only the
\* parent-zone key.
C13_AssertionKeyInventory ==
    (last.outcome \notin {"none", "inconsistent"} /\ last.orig.type = "Assertion")
        => last.needed = listedAssertionKeys(last.orig)

\* C14: the keys verify looks up for a shard or zone are the keys of the
\* outer section together with the keys of every section it contains, at
\* every level of nesting.
C14_CompositeKeyInventory ==
    (last.outcome \notin {"none", "inconsistent"} /\ last.orig.type \in {"Shard", "Zone"})
        => last.needed = requiredKeys(last.orig)

\* C15: a signature of another keyspace than rains is not handed to
\* VerifySignature and is still on the section when validateSignatures
\* has returned.
C15_ForeignKeyspaceIgnored ==
    (vsOut.done /\ ~vsOut.panic) =>
        /\ \A j \in 1..Len(vsOut.checked) :
              vsOut.checked[j].sig.KeySpace = RainsKeySpace
        /\ \A i \in 1..Len(vsIn.sigs) :
              vsIn.sigs[i].KeySpace # RainsKeySpace =>
                  \E k \in 1..Len(vsOut.sec.Signatures) :
                      vsOut.sec.Signatures[k] = vsIn.sigs[i]

\* C16: with only the root key cached, verify of the delegation of zone ch,
\* signed by the root key and not expired, hands it to assert in that call;
\* it is not parked.
C16_DelegationHappyPath ==
    (/\ last.orig = delegCh
     /\ last.cache = {rootKeyEntry}
     /\ \A i \in 1..Len(delegCh.Signatures) : ~sigExpired(delegCh.Signatures[i], last.at))
        => last.outcome = "delivered"

\* the greatest validUntil over the signatures of a section
greatestValidUntil(sigs) ==
    IF sigs = <<>> THEN 0
    ELSE CHOOSE v \in {sigs[i].ValidUntil : i \in 1..Len(sigs)} :
            \A i \in 1..Len(sigs) : sigs[i].ValidUntil <= v

\* C17: the validUntil of a pending entry, and of the delegation query sent
\* for it, is the lesser of the greatest signature validUntil of the parked
\* section and now + DelegationQueryValidity, now being the time of parking.
C17_PendingValidity ==
    /\ \A e \in pendingSignatures :
          e.validUntil = Min(greatestValidUntil(e.sec.Signatures),
                             e.addedAt + DelegationQueryValidity)
    /\ \A i \in 1..Len(queries) :
          /\ queries[i].validUntil =
                Min(greatestValidUntil(queries[i].orig.Signatures),
                    queries[i].computedAt + DelegationQueryValidity)
          /\ queries[i].validUntil <= queries[i].computedAt + DelegationQueryValidity

\* a section whose signatures outlast the bound is parked and its query sent
C17_Witness ==
    \E e \in pendingSignatures : \E i \in 1..Len(queries) :
        /\ queries[i].orig = e.sec
        /\ greatestValidUntil(e.sec.Signatures) > e.addedAt + DelegationQueryValidity
        /\ e.validUntil = e.addedAt + DelegationQueryValidity
        /\ queries[i].validUntil = e.validUntil

\* C18: at the moment a delegation query is sent, its token is in the set
\* of active tokens.
C18_TokenActiveWhenSent ==
    \A i \in 1..Len(queries) : queries[i].active

\* C19: a verify call on an inconsistent shard or zone sends exactly one
\* notification, of type RcvInconsistentMsg, to the sender of the section
\* and with its token; no other step sends a notification.
C19_OneNotification ==
    [][IF last' # last /\ Inconsistent(last'.orig)
       THEN notifications' = Append(notifications,
                [token |-> last'.token, sender |-> last'.sender,
                 type |-> "RcvInconsistentMsg", orig |-> last'.orig])
       ELSE notifications' = notifications]_vars

\* two inconsistent sections came from different peers, the later one a
\* zone in which both a shard and that shard's assertion differ from the zone
C19_Witness ==
    /\ Len(notifications) = 2
    /\ notifications[1].sender # notifications[2].sender
    /\ notifications[1].token # notifications[2].token
    /\ last.outcome = "inconsistent"
    /\ last.orig.type = "Zone"
    /\ \E i \in 1..Len(last.orig.Content) :
          /\ last.orig.Content[i].type = "Shard"
          /\ differsFrom(last.orig.Content[i], last.orig)
          /\ \E j \in 1..Len(last.orig.Content[i].Content) :
                differsFrom(last.orig.Content[i].Content[j], last.orig)

\* C20: containedSectionInRange accepts a subject name exactly when it is
\* not below a non-empty rangeFrom and not above a non-empty rangeTo; an
\* empty bound admits every name and a name equal to a bound is accepted.
C20_RangeInclusive ==
    rgOut.done =>
        (rgOut.ret <=>
            /\ rgIn.RangeFrom = "" \/ ~StrLess(rgIn.subjectName, rgIn.RangeFrom)
            /\ rgIn.RangeTo = "" \/ ~StrLess(rgIn.RangeTo, rgIn.subjectName))

\* a name equal to the upper bound of a shard without lower bound is accepted
C20_Witness ==
    /\ rgOut.done /\ rgOut.ret
    /\ rgIn.RangeFrom = ""
    /\ rgIn.RangeTo # ""
    /\ rgIn.subjectName = rgIn.RangeTo

\* C21: a query whose expiration time lies before the current time is
\* dropped by verify without a call of the query engine and without a
\* notification; a query whose expiration time is the current time or later
\* is handed to the query engine, once, with its sender.
C21_ExpiredQueryDropped ==
    vqOut.done =>
        /\ vqOut.notifications = <<>>
        /\ IF vqIn.Expires < vqIn.t
           THEN vqOut.engine = <<>>
           ELSE vqOut.engine =
                   <<[section |-> QuerySection(vqIn.Name, vqIn.Context, vqIn.Expires),
                      sender |-> vqIn.sender]>>

C21_Witness ==
    /\ vqOut.done
    /\ vqIn.Expires = vqIn.t
    /\ Len(vqOut.engine) = 1

\* C22: verify never panics, whatever the peer sent.
C22_VerifyNeverPanics == ~crashed

\* C26: resolving a redirect target ends for every set of service, address
\* and alias records: alias cycles end with an error, never with a recursion
\* without end.
C26_RedirectTerminates == hrOut.done => ~hrOut.overflow

\* C29: for every target name T, when the answer holds service information
\* for T that names host N and port P, and an address A for N, the target
\* resolves to the authority A:P.
C29_RedirectComposition ==
    (/\ hrOut.done
     /\ hrIn.name \in DOMAIN hrIn.srvMap
     /\ hrIn.srvMap[hrIn.name].Name \in DOMAIN hrIn.ipMap) =>
        /\ ~hrOut.err
        /\ hrOut.addr = TCPAddr(hrIn.ipMap[hrIn.srvMap[hrIn.name].Name],
                                <<ToString(hrIn.srvMap[hrIn.name].Port)>>)

\* C23: recursiveResolve returns a message if and only if some answer
\* received during the walk is Final, and the message is exactly that
\* answer; when every root was tried in the configured order without a
\* Final answer it returns an error and no message.
C23_MessageIffFinal ==
    rr.pc = "done" =>
        /\ ~rr.msg.nil <=> rr.anyFinal
        /\ ~rr.msg.nil => /\ rr.msg = rr.lastAnswer
                          /\ handleAnswer(rr.msg, rr.q, <<>>).isFinal
                          /\ ~rr.err
        /\ rr.msg.nil => /\ rr.err
                         /\ rr.tried = [i \in 1..Len(RootNameServers) |-> i]

\* C23, amended: the same for every call that does not return through the
\* delegation shortcut.
C23_MessageIffFinalOnWalk ==
    (rr.pc = "done" /\ ~rr.shortcut) =>
        /\ ~rr.msg.nil <=> rr.anyFinal
        /\ ~rr.msg.nil => /\ rr.msg = rr.lastAnswer
                          /\ handleAnswer(rr.msg, rr.q, <<>>).isFinal
                          /\ ~rr.err
        /\ rr.msg.nil => /\ rr.err
                         /\ rr.tried = [i \in 1..Len(RootNameServers) |-> i]

\* a Final answer came from a redirect target of the second root, and
\* another call ran out of roots
C23_Witness ==
    /\ rr.pc = "done" /\ ~rr.shortcut
    /\ \/ ~rr.msg.nil /\ rr.root = 2 /\ rr.prev = "redirect"
       \/ rr.msg.nil /\ rr.lookups = 2

C25_DelegationShortcut ==
    rr.pc # "idle" =>
        IF OTDelegation \in SeqRange(rr.q.Types) /\ rr.q.Name \in DOMAIN rr.cache0
        THEN /\ rr.pc = "done" /\ rr.shortcut /\ ~rr.err
             /\ rr.msg = Message(<<rr.cache0[rr.q.Name]>>)
             /\ sent = <<>>
        ELSE /\ ~rr.shortcut
             /\ rr.pc = "done" /\ ~rr.msg.nil => rr.msg = rr.lastAnswer /\ sent # <<>>

C25_Witness ==
    /\ rr.pc = "done" /\ rr.shortcut
    /\ rr.msg = Message(<<delegC>>)

\* C27: every walk ends, whatever the peers answer.
C27_WalkTerminates == (rr.pc = "walk") ~> (rr.pc # "walk")

\* the assertions of an answer, at its top level, in its zones and in its
\* shards, that carry a delegation object
carriesDelegation(a) == \E i \in 1..Len(a.Content) : a.Content[i].Type = OTDelegation
delegationAssertions(content) ==
    {a \in SeqRange(content) : a.type = "Assertion" /\ carriesDelegation(a)}
      \cup UNION {{a \in SeqRange(s.Content) : carriesDelegation(a)} :
                  s \in {x \in SeqRange(content) : x.type \in {"Shard", "Zone"}}}

\* C28: once handleAnswer has looked at an answer, every assertion of the
\* answer that carries a delegation object, at the top level, in a zone or
\* in a shard, is in the delegation cache under its FQDN.
C28_DelegationsCached ==
    ~rr.lastAnswer.nil =>
        \A a \in delegationAssertions(rr.lastAnswer.Content) :
            FQDN(a) \in DOMAIN Delegations /\ Delegations[FQDN(a)] = a

\* the cached delegation assertions for the names of the queries of a message
\* whose types include delegation, in the order of the queries
RECURSIVE cachedDelegations(_, _)
cachedDelegations(content, cache) ==
    IF content = <<>> THEN <<>>
    ELSE (IF /\ Head(content).type = "Query"
             /\ OTDelegation \in SeqRange(Head(content).Types)
             /\ Head(content).Name \in DOMAIN cache
          THEN <<cache[Head(content).Name]>>
          ELSE <<>>)
         \o cachedDelegations(Tail(content), cache)

\* C30: the background reader sends one reply for each message it reads,
\* with the token of that message and holding only the cached delegation
\* assertions for the queried names whose types include delegation; it
\* sends no query of its own; after a read or write error the connection is
\* closed, out of the pool, and the reader has stopped.
C30_ReaderAnswersFromCache ==
    /\ Len(replies) <= Len(conn.inbound)
    /\ conn.running => Len(replies) = Len(conn.inbound)
    /\ ~conn.running => Len(conn.inbound) <= Len(replies) + 1
    /\ \A i \in 1..Len(replies) :
          /\ replies[i].Token = conn.inbound[i].Token
          /\ replies[i].Content = cachedDelegations(conn.inbound[i].Content, Delegations)
    /\ sent = <<>> /\ rr.pc = "idle"
    /\ conn.running <=> conn.open
    /\ conn.running <=> conn.pooled

\* a query was answered from the cache, then a query for a type other than
\* delegation got an empty reply, then the connection failed
C30_Witness ==
    /\ ~conn.running /\ ~conn.open /\ ~conn.pooled
    /\ Len(replies) = 2
    /\ replies[1].Content = <<delegX, delegC>>
    /\ conn.inbound[2].Content = <<QueryName(qC, <<OTIP4Addr>>)>>
    /\ replies[2].Content = <<>>

\* C31: when the write of the answer on a pooled connection fails, that
\* connection is closed and taken out of the pool and the write is tried
\* once more on one freshly opened connection; after the call the pool
\* holds no connection on which a write failed.
C31_FailedConnectionLeavesPool ==
    lk.pc = "done" =>
        /\ \A c \in lk.failed : c \in lk.closed /\ c \notin SeqRange(lk.pool)
        /\ Cardinality(lk.opened) <= 1

\* C39: ServerLookup writes the message that the resolution yielded, with
\* the caller's token, to the requester; when the resolution yields no
\* message it returns normally and writes nothing.
C39_LookupDeliversOrReturns ==
    lk.pc # "idle" =>
        /\ lk.pc = "done"
        /\ \A i \in 1..Len(lk.written) :
              /\ ~lk.msg.nil
              /\ lk.written[i].msg = [Token |-> lk.token, Content |-> lk.msg.Content]

\* the signatures of the assertion were made with the key of the trust
\* root, the one key to which a delegation chain of length zero leads
signedByTrustRoot(a) ==
    a.Signatures # <<>> /\ \A i \in 1..Len(a.Signatures) : a.Signatures[i] = "K."

\* C32: an assertion is in the delegation cache, and is handed out by the
\* delegation shortcut, only if its signature was verified along a
\* delegation chain to the trust root.
C32_OnlyValidatedDataCached ==
    /\ \A k \in DOMAIN Delegations : signedByTrustRoot(Delegations[k])
    /\ (rr.pc = "done" /\ rr.shortcut) =>
          \A i \in 1..Len(rr.msg.Content) : signedByTrustRoot(rr.msg.Content[i])

\* name lies in zone: it ends with the zone, and the zone begins at a label
\* boundary of the name
insideZone(name, zone) ==
    /\ HasSuffix(name, zone)
    /\ \/ Len(name) = Len(zone)
       \/ zone = <<".">>
       \/ name[Len(name) - Len(zone)] = "."

\* an assertion of the answer, at the top level or in a zone, is about the
\* queried name and holds an object of a queried type
answeredByAssertion(content, q) ==
    \E s \in SeqRange(content) :
        \E a \in (IF s.type = "Assertion" THEN {s}
                  ELSE IF s.type = "Zone" THEN SeqRange(s.Content) ELSE {}) :
            /\ FQDN(a) = q.Name
            /\ \E i \in 1..Len(a.Content) : a.Content[i].Type \in SeqRange(q.Types)

\* a shard or zone of the answer covers the queried name
coveredBySection(content, q) ==
    \E s \in SeqRange(content) :
        /\ s.type \in {"Shard", "Zone"}
        /\ insideZone(q.Name, s.SubjectZone)
        /\ s.type = "Shard" => ShardInRange(s, TrimSuffix(q.Name, s.SubjectZone))

\* C40: a shard or zone makes an answer Final only if the queried name lies
\* in its zone on a label boundary and, for a shard, within its range.
C40_FinalOnlyInsideZone ==
    (rr.pc = "done" /\ rr.anyFinal) =>
        \/ answeredByAssertion(rr.msg.Content, rr.q)
        \/ coveredBySection(rr.msg.Content, rr.q)

(***************************************************************************)
(* C34: every signature of a section is verified against the key that the *)
(* zone key cache holds under (section context, section subjectZone,       *)
(* signature algorithm), and the outcome of verify on one cache state and  *)
(* section is the same for every key map that publicKeysPresent can build. *)
(***************************************************************************)
C34_KeyOfSectionZoneUsed ==
    /\ \A i \in 1..Len(delivered) : \A j \in 1..Len(delivered[i].verified) :
          LET d == delivered[i]
              v == d.verified[j]
              id == keyCacheKey(d.orig.Context, d.orig.SubjectZone, v.sig.Algorithm)
          IN  cacheHas(d.cache, id, d.at) /\ v.key = cacheGet(d.cache, id, d.at)
    /\ last.outcome \in {"delivered", "dropped", "panic"}
         => \A k1, k2 \in publicKeysPresent(last.needed, last.cache, last.at).keyMaps :
               validSignature(last.orig, k1, last.at).ret
                 = validSignature(last.orig, k2, last.at).ret

(***************************************************************************)
(* C38: every signature that a call of verify hands to VerifySignature, on *)
(* the outer section or on a section contained in it, is checked against a *)
(* key that the zone key cache holds for an identifier of neededKeys of    *)
(* the outer section with the signature's algorithm, never the zero key.   *)
(***************************************************************************)
C38_NeverVerifiedWithoutKey ==
    last.outcome \in {"delivered", "dropped", "panic"}
      => \A keys \in publicKeysPresent(last.needed, last.cache, last.at).keyMaps :
           LET holds(r) ==
                 \A j \in 1..Len(r.checked) :
                    /\ r.checked[j].key # ZeroKey
                    /\ \E id \in last.needed :
                          /\ id.keyAlgo = r.checked[j].sig.Algorithm
                          /\ cacheHas(last.cache, id, last.at)
                          /\ r.checked[j].key = cacheGet(last.cache, id, last.at)
           IN  holds(validSignature(last.orig, keys, last.at))

(***************************************************************************)
(* C36: in a shard or zone handed to assert, the outer section and every   *)
(* section contained in it at any level carries a signature, every one of  *)
(* its signatures that is not expired verifies under a key of the zone key *)
(* cache, and at least one of its signatures is not expired.               *)
(***************************************************************************)
C36_ContainedSectionsAllPass ==
    \A i \in 1..Len(delivered) :
        LET d == delivered[i] IN
        d.orig.type \in {"Shard", "Zone"} =>
            \A x \in allSections(d.orig) :
                /\ Len(x.Signatures) > 0
                /\ \A j \in 1..Len(x.Signatures) :
                      ~sigExpired(x.Signatures[j], d.at) =>
                          \E e \in d.cache :
                              VerifySignature(x.Signatures[j].Algorithm, e.key.Key,
                                              x.Signatures[j].Data)
                /\ \E j \in 1..Len(x.Signatures) : ~sigExpired(x.Signatures[j], d.at)

\* the interval of a verified signature: its validity cut to the key's
sigInterval(v) ==
    [since |-> Max(v.sig.ValidSince, v.key.ValidSince),
     until |-> Min(v.sig.ValidUntil, v.key.ValidUntil)]
Least(S) == CHOOSE x \in S : \A y \in S : x <= y
Greatest(S) == CHOOSE x \in S : \A y \in S : x >= y
verifiedIntervals == {sigInterval(vsOut.verified[j]) : j \in 1..Len(vsOut.verified)}

(***************************************************************************)
(* C37: after validateSignatures has verified several signatures of a      *)
(* section, validSince is the least start and validUntil the greatest end  *)
(* of their intervals, validUntil capped at now + maxValidity; and no      *)
(* interval that was recorded is left with a later validSince or an        *)
(* earlier validUntil than it gave.                                        *)
(***************************************************************************)
C37_ValidityIsHullOfIntervals ==
    (vsOut.done /\ vsOut.ret /\ Len(vsOut.verified) >= 2) =>
        /\ vsOut.sec.validSince = Least({x.since : x \in verifiedIntervals})
        /\ vsOut.sec.validUntil =
              Min(Greatest({x.until : x \in verifiedIntervals}), cacheLimit)
        /\ \A x \in verifiedIntervals :
              /\ vsOut.sec.validSince <= Min(x.since, cacheLimit)
              /\ vsOut.sec.validUntil >= Min(x.until, cacheLimit)

\* the field a CompareTo looks at first
leadingField(x) ==
    CASE x.type = "Assertion" -> x.SubjectName
      [] x.type = "AddressAssertion" -> x.SubjectAddr
      [] OTHER -> x.SubjectZone

(***************************************************************************)
(* C35: x.CompareTo(y) returns; it is 0 exactly when x and y agree in      *)
(* every field and in their content; it is the negative of y.CompareTo(x); *)
(* and it is -1 when x is smaller and 1 when x is greater in the field     *)
(* that is compared first.                                                 *)
(***************************************************************************)
C35_CompareToIsTotalOrder ==
    cmpOut.done =>
        /\ ~cmpOut.panic
        /\ cmpOut.ret \in {-1, 0, 1}
        /\ cmpOut.ret = 0 <=> cmpIn.x = cmpIn.y
        /\ ~CompareTo(cmpIn.y, cmpIn.x).panic
        /\ cmpOut.ret = 0 - CompareTo(cmpIn.y, cmpIn.x).ret
        /\ StrLess(leadingField(cmpIn.x), leadingField(cmpIn.y)) => cmpOut.ret = -1
        /\ StrLess(leadingField(cmpIn.y), leadingField(cmpIn.x)) => cmpOut.ret = 1

\* the content that Sort orders
sortedPart(x) == IF x.type \in {"Assertion", "AddressAssertion"} THEN x.Objects ELSE x.Content
withSortedPart(x, c) ==
    IF x.type \in {"Assertion", "AddressAssertion"}
    THEN [x EXCEPT !.Objects = c] ELSE [x EXCEPT !.Content = c]

\* x with its content in every other order
reordered(x) ==
    LET n == Len(sortedPart(x))
        perms == {p \in [1..n -> 1..n] : \A i, j \in 1..n : p[i] = p[j] => i = j}
    IN  {withSortedPart(x, [i \in 1..n |-> sortedPart(x)[p[i]]]) : p \in perms}

\* position of a section type in a sorted message
typeCode(sec) ==
    CASE sec.type = "AddressAssertion" -> 1
      [] sec.type = "Assertion" -> 2
      [] sec.type = "Shard" -> 3
      [] OTHER -> 4

(***************************************************************************)
(* C33: Sort returns; a message or section with the same contents in any   *)
(* other order sorts to the same content sequence; sorting the result      *)
(* again leaves it as it is; and in a sorted message the sections stand in *)
(* the order address assertion, assertion, shard, zone.                    *)
(***************************************************************************)
C33_SortIsCanonical ==
    stOut.done =>
        /\ ~stOut.panic
        /\ \A y \in reordered(stIn) : SortOf(y) = [sec |-> stOut.sec, panic |-> FALSE]
        /\ SortOf(stOut.sec) = [sec |-> stOut.sec, panic |-> FALSE]
        /\ stOut.sec.type = "Message" =>
              \A i, j \in 1..Len(stOut.sec.Content) :
                  i < j => typeCode(stOut.sec.Content[i]) <= typeCode(stOut.sec.Content[j])

====
